---- MODULE Spec2Model ----
(***************************************************************************)
(* The Intervals.icu client.  The transport: the response interceptor of   *)
(* the HTTP client, the RateLimitTracker it updates and the ErrorHandler   *)
(* it rejects through (specification Spec).  The resource methods: each    *)
(* builds its request descriptors, hands them to request<T> and settles    *)
(* with what comes back (specification SpecCalls).  Construction and       *)
(* instances: the axios instance a configuration gives, and two clients    *)
(* side by side (specification SpecClients).                               *)
(*                                                                         *)
(* JavaScript values are tagged records; strings whose content matters     *)
(* (header values, messages, keys) are sequences of one-character strings, *)
(* so that parseInt, toISOString, base64 and "contains" are computed, not  *)
(* assumed.                                                                *)
(*                                                                         *)
(* The transport follows the core/ classes and the resource methods follow *)
(* client.ts.  The monolithic client's own updateRateLimitInfo and         *)
(* handleError, and the services of the composed client, are translated    *)
(* separately and run next to them.  Time values are kept below 2^31 ms,   *)
(* so reset epochs are early 1970 instants.                                *)
(***************************************************************************)
EXTENDS Integers, Sequences, FiniteSets, TLC

\* Number of requests one behaviour of the model issues.
MaxCalls == 2

-----------------------------------------------------------------------------
(* JavaScript values *)

Undefined == [t |-> "undefined"]
NaN == [t |-> "NaN"]
Num(n) == [t |-> "number", v |-> n]
Str(s) == [t |-> "string", s |-> s]
\* a header value that is not a string (axios gives string[] for repeated headers)
ArrayValue == [t |-> "object"]
\* new Date(tv): a Date object holding the time value tv (a number or NaN)
Date(tv) == [t |-> "Date", time |-> tv]

\* ToBoolean, as applied by `||`, `?:` and `if`
Truthy(x) ==
  CASE x.t = "undefined" -> FALSE
    [] x.t = "NaN" -> FALSE
    [] x.t = "number" -> x.v # 0
    [] x.t = "string" -> x.s # <<>>
    [] OTHER -> TRUE

\* a || b
Or(a, b) == IF Truthy(a) THEN a ELSE b

\* typeof x === 'string'
IsString(x) == x.t = "string"

\* x * k for a number or NaN x
Times(x, k) == IF x.t = "number" THEN Num(x.v * k) ELSE NaN

-----------------------------------------------------------------------------
(* Strings as character sequences *)

DigitChars == <<"0", "1", "2", "3", "4", "5", "6", "7", "8", "9">>
IsDigit(c) == \E i \in 1..Len(DigitChars) : DigitChars[i] = c
DigitVal(c) == (CHOOSE i \in 1..Len(DigitChars) : DigitChars[i] = c) - 1
WhiteSpace == {" "}

RECURSIVE TrimStart(_)
TrimStart(s) ==
  IF s # <<>> /\ Head(s) \in WhiteSpace THEN TrimStart(Tail(s)) ELSE s

RECURSIVE DigitPrefix(_)
DigitPrefix(s) ==
  IF s # <<>> /\ IsDigit(Head(s))
  THEN <<Head(s)>> \o DigitPrefix(Tail(s))
  ELSE <<>>

RECURSIVE MathInt(_, _)
MathInt(z, acc) ==
  IF z = <<>> THEN acc ELSE MathInt(Tail(z), acc * 10 + DigitVal(Head(z)))

\* parseInt(s, 10): leading white space is skipped, an optional sign is read,
\* the longest prefix of decimal digits is the value; NaN when it is empty.
ParseInt(s) ==
  LET S == TrimStart(s)
      neg == S # <<>> /\ Head(S) = "-"
      S2 == IF S # <<>> /\ Head(S) \in {"+", "-"} THEN Tail(S) ELSE S
      Z == DigitPrefix(S2)
  IN IF Z = <<>> THEN NaN
     ELSE Num(IF neg THEN 0 - MathInt(Z, 0) ELSE MathInt(Z, 0))

\* the decimal digits of a natural number, at least `width` of them
RECURSIVE NatDigits(_)
NatDigits(n) ==
  IF n < 10 THEN <<DigitChars[n + 1]>>
  ELSE NatDigits(n \div 10) \o <<DigitChars[(n % 10) + 1]>>

RECURSIVE Pad(_, _)
Pad(digits, width) ==
  IF Len(digits) >= width THEN digits ELSE Pad(<<"0">> \o digits, width)

\* Number::toString for an integer
NumberToString(n) == IF n < 0 THEN <<"-">> \o NatDigits(0 - n) ELSE NatDigits(n)

\* String.prototype.includes
Contains(s, sub) ==
  \E i \in 1..(Len(s) - Len(sub) + 1) : SubSeq(s, i, i + Len(sub) - 1) = sub

-----------------------------------------------------------------------------
(* Date.prototype.toISOString, after ECMA-262 21.4.1 *)

MsPerDay == 86400000
Day(tv) == tv \div MsPerDay
TimeWithinDay(tv) == tv % MsPerDay
DayFromYear(y) ==
  365 * (y - 1970) + ((y - 1969) \div 4) - ((y - 1901) \div 100) + ((y - 1601) \div 400)
InLeapYear(y) == (y % 4 = 0) /\ ((y % 100 # 0) \/ (y % 400 = 0))
YearFromTime(tv) ==
  CHOOSE y \in (1969 + (Day(tv) \div 366))..(1971 + (Day(tv) \div 365)) :
    DayFromYear(y) <= Day(tv) /\ Day(tv) < DayFromYear(y + 1)
DayWithinYear(tv) == Day(tv) - DayFromYear(YearFromTime(tv))
\* first day-within-year of month m (0..12)
MonthStart(m, leap) ==
  LET base == <<0, 31, 59, 90, 120, 151, 181, 212, 243, 273, 304, 334, 365>>
  IN base[m + 1] + (IF leap /\ m >= 2 THEN 1 ELSE 0)
MonthFromTime(tv) ==
  LET leap == InLeapYear(YearFromTime(tv))
  IN CHOOSE m \in 0..11 :
       MonthStart(m, leap) <= DayWithinYear(tv) /\ DayWithinYear(tv) < MonthStart(m + 1, leap)
DateFromTime(tv) ==
  DayWithinYear(tv) - MonthStart(MonthFromTime(tv), InLeapYear(YearFromTime(tv))) + 1
YearString(y) ==
  IF 0 <= y /\ y <= 9999 THEN Pad(NatDigits(y), 4)
  ELSE (IF y < 0 THEN <<"-">> ELSE <<"+">>) \o Pad(NatDigits(IF y < 0 THEN 0 - y ELSE y), 6)
ISOString(tv) ==
  LET w == TimeWithinDay(tv)
  IN YearString(YearFromTime(tv)) \o <<"-">> \o Pad(NatDigits(MonthFromTime(tv) + 1), 2)
       \o <<"-">> \o Pad(NatDigits(DateFromTime(tv)), 2)
       \o <<"T">> \o Pad(NatDigits(w \div 3600000), 2)
       \o <<":">> \o Pad(NatDigits((w \div 60000) % 60), 2)
       \o <<":">> \o Pad(NatDigits((w \div 1000) % 60), 2)
       \o <<".">> \o Pad(NatDigits(w % 1000), 3) \o <<"Z">>

-----------------------------------------------------------------------------
(* Literal strings of the source *)

MsgRateLimit == <<"R", "a", "t", "e", " ", "l", "i", "m", "i", "t", " ", "e", "x", "c", "e", "e", "d", "e", "d", ".", " ">>
MsgResetsAt == <<"R", "e", "s", "e", "t", "s", " ", "a", "t", " ">>
MsgAuthFailed == <<"I", "n", "v", "a", "l", "i", "d", " ", "A", "P", "I", " ", "k", "e", "y", " ", "o", "r", " ", "a", "u", "t", "h", "e", "n", "t", "i", "c", "a", "t", "i", "o", "n", " ", "f", "a", "i", "l", "e", "d">>
MsgNotFound == <<"R", "e", "s", "o", "u", "r", "c", "e", " ", "n", "o", "t", " ", "f", "o", "u", "n", "d">>
MsgTimeout == <<"R", "e", "q", "u", "e", "s", "t", " ", "t", "i", "m", "e", "o", "u", "t">>
MsgUnknown == <<"U", "n", "k", "n", "o", "w", "n", " ", "e", "r", "r", "o", "r", " ", "o", "c", "c", "u", "r", "r", "e", "d">>
\* the message of the RangeError V8 throws from toISOString on an invalid Date
MsgInvalidTime == <<"I", "n", "v", "a", "l", "i", "d", " ", "t", "i", "m", "e", " ", "v", "a", "l", "u", "e">>

-----------------------------------------------------------------------------
(* RateLimitTracker *)

\* a tracker that starts with a count of zero instead of an unknown one
NewRateLimitTracker_Zero == [remaining |-> Num(0), reset |-> Undefined]

\* private remaining?: number; private reset?: Date;
NewRateLimitTracker == [remaining |-> Undefined, reset |-> Undefined]

\* the reset epoch taken as milliseconds: the conversion from seconds is missing
updateFromHeaders_Seconds(tracker, headers) ==
  LET remaining == headers.remaining
      reset == headers.reset
  IN [remaining |-> IF IsString(remaining) THEN ParseInt(remaining.s) ELSE tracker.remaining,
      reset |-> IF IsString(reset) THEN Date(ParseInt(reset.s)) ELSE tracker.reset]

\* a header that is not a string clears the field
updateFromHeaders_ClearOnMissing(tracker, headers) ==
  LET remaining == headers.remaining
      reset == headers.reset
  IN [remaining |-> IF IsString(remaining) THEN ParseInt(remaining.s) ELSE Undefined,
      reset |-> IF IsString(reset) THEN Date(Times(ParseInt(reset.s), 1000)) ELSE Undefined]

updateFromHeaders(tracker, headers) ==
  LET remaining == headers.remaining
      reset == headers.reset
  IN [remaining |-> IF IsString(remaining) THEN ParseInt(remaining.s) ELSE tracker.remaining,
      reset |-> IF IsString(reset) THEN Date(Times(ParseInt(reset.s), 1000)) ELSE tracker.reset]

getRemaining(tracker) == tracker.remaining
getReset(tracker) == tracker.reset

-----------------------------------------------------------------------------
(* ErrorHandler *)

\* completions of an evaluation: a value returned or an exception thrown
Return(v) == [type |-> "return", value |-> v]
Throw(e) == [type |-> "throw", value |-> e]

\* new Error(message): an absent message becomes the empty string
ErrorMessage(message) == IF message.t = "undefined" THEN Str(<<>>) ELSE message

IntervalsAPIError(message, status, code) ==
  [name |-> "IntervalsAPIError", message |-> ErrorMessage(message), status |-> status, code |-> code]

RangeError(message) ==
  [name |-> "RangeError", message |-> Str(message), status |-> Undefined, code |-> Undefined]

\* date.toISOString(): throws a RangeError when the time value is not finite
toISOString(date) ==
  IF date.time.t = "number" THEN Return(ISOString(date.time.v))
  ELSE Throw(RangeError(MsgInvalidTime))

\* `Rate limit exceeded. ${resetTime ? `Resets at ${resetTime.toISOString()}` : ''}`
RateLimitMessage(resetTime) ==
  IF Truthy(resetTime)
  THEN LET iso == toISOString(resetTime)
       IN IF iso.type = "throw" THEN iso
          ELSE Return(Str(MsgRateLimit \o MsgResetsAt \o iso.value))
  ELSE Return(Str(MsgRateLimit \o <<>>))

\* (error.response.data as { message?: string })?.message
DataMessage(data) == IF data.t = "undefined" THEN Undefined ELSE data.message

\* the body's message is never consulted
ResponseMessage_TransportOnly(error) == error.message

\* (error.response.data as { message?: string })?.message || error.message
ResponseMessage(error) == Or(DataMessage(error.response.data), error.message)

RateLimitError(status, tracker) ==
  LET text == RateLimitMessage(getReset(tracker))
  IN IF text.type = "throw" THEN text
     ELSE Return(IntervalsAPIError(text.value, Num(status), Str("RATE_LIMIT_EXCEEDED")))

AuthError(status) == IntervalsAPIError(Str(MsgAuthFailed), Num(status), Str("AUTH_FAILED"))

NotFoundError(status) == IntervalsAPIError(Str(MsgNotFound), Num(status), Str("NOT_FOUND"))

OtherStatusError(error, status) == IntervalsAPIError(ResponseMessage(error), Num(status), Undefined)

\* a timeout reported without its code
TimeoutError_NoCode == IntervalsAPIError(Str(MsgTimeout), Undefined, Undefined)

TimeoutError == IntervalsAPIError(Str(MsgTimeout), Undefined, Str("TIMEOUT"))

\* the fallback text for a failure without a message is missing
FallbackError_NoDefault(error) == IntervalsAPIError(error.message, Undefined, Undefined)

FallbackError(error) == IntervalsAPIError(Or(error.message, Str(MsgUnknown)), Undefined, Undefined)

\* the timeout rule is tried first, whether the failure carries a response or not
handleError_TimeoutFirst(error, tracker) ==
  IF error.code = Str("ECONNABORTED") THEN Return(TimeoutError)
  ELSE IF Truthy(error.response)
  THEN LET status == error.response.status
       IN IF status = 429 THEN RateLimitError(status, tracker)
          ELSE IF status = 401 THEN Return(AuthError(status))
          ELSE IF status = 404 THEN Return(NotFoundError(status))
          ELSE Return(OtherStatusError(error, status))
  ELSE Return(FallbackError(error))

handleError(error, tracker) ==
  IF Truthy(error.response)
  THEN LET status == error.response.status
       IN IF status = 429 THEN RateLimitError(status, tracker)
          ELSE IF status = 401 THEN Return(AuthError(status))
          ELSE IF status = 404 THEN Return(NotFoundError(status))
          ELSE Return(OtherStatusError(error, status))
  ELSE IF error.code = Str("ECONNABORTED") THEN Return(TimeoutError)
  ELSE Return(FallbackError(error))

-----------------------------------------------------------------------------
(* The monolithic IntervalsClient of client.ts: its own two rate-limit       *)
(* fields, updateRateLimitInfo and handleError                               *)

\* private rateLimitRemaining?: number; private rateLimitReset?: Date;
NewIntervalsClient == [rateLimitRemaining |-> Undefined, rateLimitReset |-> Undefined]

\* the reset epoch taken as milliseconds: the conversion from seconds is missing
updateRateLimitInfo_Seconds(this, headers) ==
  [rateLimitRemaining |-> IF IsString(headers.remaining) THEN ParseInt(headers.remaining.s)
                          ELSE this.rateLimitRemaining,
   rateLimitReset |-> IF IsString(headers.reset) THEN Date(ParseInt(headers.reset.s))
                      ELSE this.rateLimitReset]

\* updateRateLimitInfo(headers)
updateRateLimitInfo(this, headers) ==
  [rateLimitRemaining |-> IF IsString(headers.remaining) THEN ParseInt(headers.remaining.s)
                          ELSE this.rateLimitRemaining,
   rateLimitReset |-> IF IsString(headers.reset)
                      THEN Date(Times(ParseInt(headers.reset.s), 1000))
                      ELSE this.rateLimitReset]

\* `Rate limit exceeded. ${this.rateLimitReset ? `Resets at ${...toISOString()}` : ''}`
IntervalsClient_RateLimitText(this) ==
  IF Truthy(this.rateLimitReset)
  THEN IF this.rateLimitReset.time.t = "number"
       THEN Return(Str(MsgRateLimit \o MsgResetsAt \o ISOString(this.rateLimitReset.time.v)))
       ELSE Throw(RangeError(MsgInvalidTime))
  ELSE Return(Str(MsgRateLimit))

\* handleError(error) of client.ts
IntervalsClient_handleError(this, error) ==
  IF Truthy(error.response)
  THEN LET status == error.response.status
           message == Or(IF error.response.data.t = "undefined" THEN Undefined
                         ELSE error.response.data.message,
                         error.message)
       IN IF status = 429
          THEN LET text == IntervalsClient_RateLimitText(this)
               IN IF text.type = "throw" THEN text
                  ELSE Return(IntervalsAPIError(text.value, Num(status), Str("RATE_LIMIT_EXCEEDED")))
          ELSE IF status = 401
          THEN Return(IntervalsAPIError(Str(MsgAuthFailed), Num(status), Str("AUTH_FAILED")))
          ELSE IF status = 404
          THEN Return(IntervalsAPIError(Str(MsgNotFound), Num(status), Str("NOT_FOUND")))
          ELSE Return(IntervalsAPIError(message, Num(status), Undefined))
  ELSE IF error.code = Str("ECONNABORTED")
  THEN Return(IntervalsAPIError(Str(MsgTimeout), Undefined, Str("TIMEOUT")))
  ELSE Return(IntervalsAPIError(Or(error.message, Str(MsgUnknown)), Undefined, Undefined))

-----------------------------------------------------------------------------
(* What the network can deliver to the response interceptor.  The exchanges *)
(* are two families: every combination of the two rate-limit headers on a   *)
(* success, a 429 and a 500, and every combination of status, body message,     *)
(* transport message and transport code on a response without the headers.  *)

\* remaining counts and reset epochs (seconds) a well-behaved server sends
RemainingCounts == {98, 50}
ResetSeconds == {0, 1640000}
\* a header string parseInt cannot read
NonNumericStrings == {<<"a", "b", "c">>}

RemainingHeaderValues ==
  {Undefined, ArrayValue} \cup {Str(NumberToString(n)) : n \in RemainingCounts}
    \cup {Str(s) : s \in NonNumericStrings}
ResetHeaderValues ==
  {Undefined, ArrayValue} \cup {Str(NumberToString(n)) : n \in ResetSeconds}
    \cup {Str(s) : s \in NonNumericStrings}
Headers == [remaining : RemainingHeaderValues, reset : ResetHeaderValues]
NoHeaders == [remaining |-> Undefined, reset |-> Undefined]

\* response bodies: none, or an object with or without a message field
BodyMessages == {Undefined, Str(<<>>), Str(<<"B", "a", "d", " ", "r", "e", "q", "u", "e", "s", "t">>)}
Bodies == {Undefined} \cup {[t |-> "object", message |-> m] : m \in BodyMessages}
SomeBody == [t |-> "object", message |-> Undefined]

TransportMessages == {Str(<<>>), Str(<<"N", "e", "t", "w", "o", "r", "k", " ", "E", "r", "r", "o", "r">>)}
TransportCodes == {Undefined, Str("ECONNABORTED"), Str("ERR_NETWORK")}

Response(status, headers, data) ==
  [t |-> "object", status |-> status, headers |-> headers, data |-> data]

SuccessResponses ==
  {Response(200, h, SomeBody) : h \in Headers}
    \cup {Response(204, NoHeaders, Undefined)}

\* AxiosError: response is absent for timeouts and network failures
AxiosError(response, message, code) ==
  [response |-> response, message |-> message, code |-> code]

HeaderErrors ==
  {AxiosError(Response(st, h, Undefined), Str(<<"N", "e", "t", "w", "o", "r", "k", " ", "E", "r", "r", "o", "r">>), Undefined) :
     st \in {429, 500}, h \in Headers}
ContentErrors ==
  {AxiosError(Response(st, NoHeaders, d), m, c) :
     st \in {401, 404, 429, 500}, d \in Bodies, m \in TransportMessages, c \in TransportCodes}
NetworkErrors ==
  {AxiosError(Undefined, m, c) : m \in TransportMessages, c \in TransportCodes}
AxiosErrors == HeaderErrors \cup ContentErrors \cup NetworkErrors

-----------------------------------------------------------------------------
(* Construction: the Authorization header and the axios instance *)

TextUndefined == <<"u", "n", "d", "e", "f", "i", "n", "e", "d">>

\* `${x}` in a template literal
Interpolate(x) ==
  IF x.t = "string" THEN x.s
  ELSE IF x.t = "number" THEN NumberToString(x.v)
  ELSE TextUndefined

UpperChars == <<"A", "B", "C", "D", "E", "F", "G", "H", "I", "J", "K", "L", "M", "N", "O", "P", "Q", "R", "S", "T", "U", "V", "W", "X", "Y", "Z">>
LowerChars == <<"a", "b", "c", "d", "e", "f", "g", "h", "i", "j", "k", "l", "m", "n", "o", "p", "q", "r", "s", "t", "u", "v", "w", "x", "y", "z">>
IndexIn(seq, c) == CHOOSE i \in 1..Len(seq) : seq[i] = c
\* 'c'.charCodeAt(0): the byte Buffer.from(text) holds for an ASCII character
CharCode(c) ==
  CASE IsDigit(c) -> 47 + IndexIn(DigitChars, c)
    [] c = ":" -> 58
    [] \E i \in 1..Len(UpperChars) : UpperChars[i] = c -> 64 + IndexIn(UpperChars, c)
    [] c = "_" -> 95
    [] \E i \in 1..Len(LowerChars) : LowerChars[i] = c -> 96 + IndexIn(LowerChars, c)
\* Buffer.from(text): the bytes of the text
BufferFrom(text) == [k \in 1..Len(text) |-> CharCode(text[k])]

Base64Alphabet ==
  <<"A", "B", "C", "D", "E", "F", "G", "H", "I", "J", "K", "L", "M", "N", "O", "P", "Q", "R", "S", "T", "U", "V", "W", "X", "Y", "Z", "a", "b", "c", "d", "e", "f", "g", "h", "i", "j", "k", "l", "m", "n", "o", "p", "q", "r", "s", "t", "u", "v", "w", "x", "y", "z", "0", "1", "2", "3", "4", "5", "6", "7", "8", "9", "+", "/">>

\* buffer.toString('base64'): every three bytes give four characters of the
\* alphabet, six bits each; a last group of one or two bytes is padded with '='
RECURSIVE toBase64(_)
toBase64(bytes) ==
  IF Len(bytes) = 0 THEN <<>>
  ELSE LET b1 == bytes[1]
           b2 == IF Len(bytes) >= 2 THEN bytes[2] ELSE 0
           b3 == IF Len(bytes) >= 3 THEN bytes[3] ELSE 0
           c1 == Base64Alphabet[(b1 \div 4) + 1]
           c2 == Base64Alphabet[((b1 % 4) * 16 + (b2 \div 16)) + 1]
           c3 == IF Len(bytes) >= 2
                 THEN Base64Alphabet[((b2 % 16) * 4 + (b3 \div 64)) + 1] ELSE "="
           c4 == IF Len(bytes) >= 3 THEN Base64Alphabet[(b3 % 64) + 1] ELSE "="
       IN <<c1, c2, c3, c4>> \o
          (IF Len(bytes) > 3 THEN toBase64(SubSeq(bytes, 4, Len(bytes))) ELSE <<>>)

AuthPrefix == <<"A", "P", "I", "_", "K", "E", "Y", ":">>
BasicPrefix == <<"B", "a", "s", "i", "c", " ">>
DefaultBaseURL == <<"h", "t", "t", "p", "s", ":", "/", "/", "i", "n", "t", "e", "r", "v", "a", "l", "s", ".", "i", "c", "u", "/", "a", "p", "i", "/", "v", "1">>
DefaultTimeout == 10000
ContentTypeJson == "application/json"

\* const authString = `API_KEY:${config.apiKey}`;
\* encodedAuth = Buffer.from(authString).toString('base64')
encodedAuth(cfg) == toBase64(BufferFrom(AuthPrefix \o Interpolate(cfg.apiKey)))

\* the API key goes into the header as it is, not base64-encoded
AxiosCreate_KeyNotEncoded(cfg) ==
  [baseURL |-> Or(cfg.baseURL, Str(DefaultBaseURL)),
   timeout |-> Or(cfg.timeout, Num(DefaultTimeout)),
   headers |-> [Authorization |-> Str(BasicPrefix \o AuthPrefix \o Interpolate(cfg.apiKey)),
                ContentType |-> ContentTypeJson]]

\* axios.create({baseURL: config.baseURL || '...', timeout: config.timeout || 10000,
\*               headers: {Authorization: `Basic ${encodedAuth}`, 'Content-Type': ...}})
AxiosCreate(cfg) ==
  [baseURL |-> Or(cfg.baseURL, Str(DefaultBaseURL)),
   timeout |-> Or(cfg.timeout, Num(DefaultTimeout)),
   headers |-> [Authorization |-> Str(BasicPrefix \o encodedAuth(cfg)),
                ContentType |-> ContentTypeJson]]

-----------------------------------------------------------------------------
(* The client: one tracker, the requests in flight, and what the caller of *)
(* the most recently settled request observed                              *)

VARIABLES
  rateLimitTracker,    \* the tracker's two fields
  issued,              \* requests issued so far; they are numbered 1..issued
  inflight,            \* requests issued and not yet settled
  last,                \* the most recently settled request: what arrived, the
                       \* tracker before it, whether it is the failure settled
                       \* just before it over again, and what the caller's
                       \* promise got
  processed,           \* history: responses whose headers reached the tracker
  failures,            \* history: requests settled by a failure of any kind
  lastValidRemaining,  \* history: the remaining count of the latest response
                       \* whose remaining header parsed as an integer
  config,              \* the IntervalsConfig the client was constructed with
  athleteId,           \* this.athleteId, the default athlete of the client
  call,                \* the latest call of a resource method: its arguments,
                       \* the requests it handed to request<T>, the outcome of
                       \* each, and how its promise settled
  owner,               \* history: for every HTTP request issued by a method,
                       \* the call and the request<T> invocation it was sent for
  overridden,          \* history: some call so far was given an athlete id
  client,              \* the axios instance: the defaults axios.create was given
  sent,                \* history: for every HTTP request issued, the base URL,
                       \* timeout and headers it carried
  resetFrom,           \* history: the request whose response stored the reset
                       \* time the tracker holds, and the requests that were
                       \* in flight when it arrived
  second,              \* a second client instance: its tracker and what its
                       \* most recently settled request gave its caller
  monolith             \* the monolithic client of client.ts given the same
                       \* responses and failures: its two rate-limit fields
                       \* and what its most recently settled request gave

transportVars == <<rateLimitTracker, issued, inflight, last, processed, failures, lastValidRemaining>>
methodVars == <<config, athleteId, call, owner, overridden>>
instanceVars == <<client, sent, resetFrom, second>>
vars == <<rateLimitTracker, issued, inflight, last, processed, failures, lastValidRemaining,
          config, athleteId, call, owner, overridden, client, sent, resetFrom, second,
          monolith>>

\* getRateLimitRemaining() / getRateLimitReset() of the facade
getRateLimitRemaining == getRemaining(rateLimitTracker)
getRateLimitReset == getReset(rateLimitTracker)

\* no resource method has been called yet
NoCall ==
  [n |-> 0, invocation |-> Undefined, first |-> 0, requests |-> <<>>, returns |-> "none",
   results |-> <<>>, state |-> "none", value |-> Undefined]

\* no reset time has been stored yet
NoReset == [id |-> 0, inflight |-> {}]

\* new IntervalsClient(config) once more: an instance with a tracker of its own
NewInstance == [rateLimitTracker |-> NewRateLimitTracker, settled |-> Undefined]

\* constructor(config): this.athleteId = config.athleteId || 'me', the axios
\* instance created, a fresh tracker, the interceptors installed and nothing
\* in flight
Constructed(cfg) ==
  /\ config = cfg
  /\ client = AxiosCreate(cfg)
  /\ sent = <<>>
  /\ resetFrom = NoReset
  /\ second = NewInstance
  /\ monolith = [fields |-> NewIntervalsClient, settled |-> Undefined]
  /\ athleteId = Or(cfg.athleteId, Str(<<"m", "e">>))
  /\ call = NoCall
  /\ owner = <<>>
  /\ overridden = FALSE
  /\ rateLimitTracker = NewRateLimitTracker
  /\ issued = 0
  /\ inflight = {}
  /\ last = [id |-> 0, kind |-> "none", exchange |-> Undefined,
             before |-> NewRateLimitTracker, repeat |-> FALSE, settled |-> Undefined]
  /\ processed = 0
  /\ failures = 0
  /\ lastValidRemaining = Undefined

\* IntervalsConfig: apiKey is required, the other three are optional
IntervalsConfig(apiKey, athlete, baseURL, timeout) ==
  [apiKey |-> apiKey, athleteId |-> athlete, baseURL |-> baseURL, timeout |-> timeout]

\* a client constructed with an API key and nothing else
Init == Constructed(IntervalsConfig(Str(<<"k">>), Undefined, Undefined, Undefined))

\* issuing a request forgets what the tracker holds
Request_ResetsTracker ==
  /\ issued < MaxCalls
  /\ issued' = issued + 1
  /\ inflight' = inflight \cup {issued + 1}
  /\ rateLimitTracker' = NewRateLimitTracker
  /\ UNCHANGED <<last, processed, failures, lastValidRemaining>>

\* request<T>(config): this.client.request<T>(config) puts one exchange in flight
Request ==
  /\ issued < MaxCalls
  /\ issued' = issued + 1
  /\ inflight' = inflight \cup {issued + 1}
  /\ UNCHANGED <<rateLimitTracker, last, processed, failures, lastValidRemaining>>

\* the remaining value a response carries when its header parses as an integer
CarriedRemaining(headers, previous) ==
  IF IsString(headers.remaining) /\ ParseInt(headers.remaining.s) # NaN
  THEN ParseInt(headers.remaining.s)
  ELSE previous

\* after a failure the client is stuck: a response resolves the call with
\* nothing and does not reach the tracker
OnFulfilled_StuckAfterFailure(id, response) ==
  /\ id \in inflight
  /\ inflight' = inflight \ {id}
  /\ rateLimitTracker' =
       IF failures > 0 THEN rateLimitTracker
       ELSE updateFromHeaders(rateLimitTracker, response.headers)
  /\ last' = [id |-> id, kind |-> "response", exchange |-> response,
              before |-> rateLimitTracker, repeat |-> FALSE,
              settled |-> [type |-> "resolved",
                           value |-> IF failures > 0 THEN Undefined ELSE response.data]]
  /\ processed' = processed + 1
  /\ lastValidRemaining' = CarriedRemaining(response.headers, lastValidRemaining)
  /\ UNCHANGED <<issued, failures>>

\* interceptor, fulfilled: update the tracker, hand the response on;
\* request<T> then resolves with response.data
OnFulfilled(id, response) ==
  /\ id \in inflight
  /\ inflight' = inflight \ {id}
  /\ rateLimitTracker' = updateFromHeaders(rateLimitTracker, response.headers)
  /\ last' = [id |-> id, kind |-> "response", exchange |-> response,
              before |-> rateLimitTracker, repeat |-> FALSE,
              settled |-> [type |-> "resolved", value |-> response.data]]
  /\ processed' = processed + 1
  /\ lastValidRemaining' = CarriedRemaining(response.headers, lastValidRemaining)
  /\ UNCHANGED <<issued, failures>>

\* history: the failure settled just before this one was the same failure
SameFailureAgain(error) == last.kind = "error" /\ last.exchange = error

\* the error is built from the tracker as it was before this response
OnRejected_NormalizeFirst(id, error) ==
  LET tracker == IF Truthy(error.response)
                 THEN updateFromHeaders(rateLimitTracker, error.response.headers)
                 ELSE rateLimitTracker
  IN /\ id \in inflight
     /\ inflight' = inflight \ {id}
     /\ rateLimitTracker' = tracker
     /\ last' = [id |-> id, kind |-> "error", exchange |-> error,
                 before |-> rateLimitTracker, repeat |-> SameFailureAgain(error),
                 settled |-> [type |-> "rejected",
                              value |-> handleError(error, rateLimitTracker).value]]
     /\ processed' = IF Truthy(error.response) THEN processed + 1 ELSE processed
     /\ lastValidRemaining' =
          IF Truthy(error.response)
          THEN CarriedRemaining(error.response.headers, lastValidRemaining)
          ELSE lastValidRemaining
     /\ failures' = failures + 1
     /\ UNCHANGED issued

\* only the first failure of a client gets its code
OnRejected_CodeOnce(id, error) ==
  LET tracker == IF Truthy(error.response)
                 THEN updateFromHeaders(rateLimitTracker, error.response.headers)
                 ELSE rateLimitTracker
      normalized == handleError(error, tracker).value
  IN /\ id \in inflight
     /\ inflight' = inflight \ {id}
     /\ rateLimitTracker' = tracker
     /\ last' = [id |-> id, kind |-> "error", exchange |-> error,
                 before |-> rateLimitTracker, repeat |-> SameFailureAgain(error),
                 settled |-> [type |-> "rejected",
                              value |-> IF failures > 0
                                        THEN [normalized EXCEPT !.code = Undefined]
                                        ELSE normalized]]
     /\ processed' = IF Truthy(error.response) THEN processed + 1 ELSE processed
     /\ lastValidRemaining' =
          IF Truthy(error.response)
          THEN CarriedRemaining(error.response.headers, lastValidRemaining)
          ELSE lastValidRemaining
     /\ failures' = failures + 1
     /\ UNCHANGED issued

\* the error is built from the failed exchange's own headers alone
OnRejected_OwnHeaders(id, error) ==
  LET tracker == IF Truthy(error.response)
                 THEN updateFromHeaders(rateLimitTracker, error.response.headers)
                 ELSE rateLimitTracker
      own == IF Truthy(error.response)
             THEN updateFromHeaders(NewRateLimitTracker, error.response.headers)
             ELSE NewRateLimitTracker
  IN /\ id \in inflight
     /\ inflight' = inflight \ {id}
     /\ rateLimitTracker' = tracker
     /\ last' = [id |-> id, kind |-> "error", exchange |-> error,
                 before |-> rateLimitTracker, repeat |-> SameFailureAgain(error),
                 settled |-> [type |-> "rejected", value |-> handleError(error, own).value]]
     /\ processed' = IF Truthy(error.response) THEN processed + 1 ELSE processed
     /\ lastValidRemaining' =
          IF Truthy(error.response)
          THEN CarriedRemaining(error.response.headers, lastValidRemaining)
          ELSE lastValidRemaining
     /\ failures' = failures + 1
     /\ UNCHANGED issued

\* interceptor, rejected: update the tracker when the error carries a response,
\* then reject with what handleError returns (or with what it throws)
OnRejected(id, error) ==
  LET tracker == IF Truthy(error.response)
                 THEN updateFromHeaders(rateLimitTracker, error.response.headers)
                 ELSE rateLimitTracker
  IN /\ id \in inflight
     /\ inflight' = inflight \ {id}
     /\ rateLimitTracker' = tracker
     /\ last' = [id |-> id, kind |-> "error", exchange |-> error,
                 before |-> rateLimitTracker, repeat |-> SameFailureAgain(error),
                 settled |-> [type |-> "rejected", value |-> handleError(error, tracker).value]]
     /\ processed' = IF Truthy(error.response) THEN processed + 1 ELSE processed
     /\ lastValidRemaining' =
          IF Truthy(error.response)
          THEN CarriedRemaining(error.response.headers, lastValidRemaining)
          ELSE lastValidRemaining
     /\ failures' = failures + 1
     /\ UNCHANGED issued

\* client.ts, interceptor, fulfilled: this.updateRateLimitInfo(response.headers);
\* request<T> then resolves with response.data
IntervalsClient_OnFulfilled(response) ==
  monolith' = [fields |-> updateRateLimitInfo(monolith.fields, response.headers),
               settled |-> [type |-> "resolved", value |-> response.data]]

\* client.ts, interceptor, rejected: updateRateLimitInfo when the error carries
\* a response, then Promise.reject(this.handleError(error))
IntervalsClient_OnRejected(error) ==
  LET fields == IF Truthy(error.response)
                THEN updateRateLimitInfo(monolith.fields, error.response.headers)
                ELSE monolith.fields
  IN monolith' = [fields |-> fields,
                  settled |-> [type |-> "rejected",
                               value |-> IntervalsClient_handleError(fields, error).value]]

\* the transport on its own: requests are issued through request<T> directly
Next ==
  \/ Request /\ UNCHANGED <<methodVars, instanceVars, monolith>>
  \/ \E id \in inflight, response \in SuccessResponses :
       /\ OnFulfilled(id, response)
       /\ IntervalsClient_OnFulfilled(response)
       /\ UNCHANGED <<methodVars, instanceVars>>
  \/ \E id \in inflight, error \in AxiosErrors :
       /\ OnRejected(id, error)
       /\ IntervalsClient_OnRejected(error)
       /\ UNCHANGED <<methodVars, instanceVars>>

Spec == Init /\ [][Next]_vars

-----------------------------------------------------------------------------
(* Client instances: what a request takes from the axios instance, which    *)
(* request stored the reset time the tracker holds, and a second instance   *)
(* constructed next to the first (specification SpecClients)                *)

ApiKeys == {Str(<<"k">>), Str(<<"k", "2">>), Str(<<"a", "b", "c">>)}
CustomBaseURL == Str(<<"h", "t", "t", "p", ":", "/", "/", "l", "o", "c", "a", "l", "h", "o", "s", "t", ":", "3", "0", "0", "0">>)
BaseURLs == {Undefined, Str(<<>>), CustomBaseURL}
CustomTimeout == Num(5000)
Timeouts == {Undefined, Num(0), CustomTimeout}
ClientConfigs ==
  {IntervalsConfig(k, Undefined, b, t) : k \in ApiKeys, b \in BaseURLs, t \in Timeouts}

\* the server of the first instance announces the reset instant 1640000, the
\* server of the second instance the instant 0
FirstHeaders == [remaining |-> Str(<<"9", "8">>), reset |-> Str(<<"1", "6", "4", "0", "0", "0", "0">>)]
SecondHeaders == [remaining |-> Str(<<"5", "0">>), reset |-> Str(<<"0">>)]
ClientResponses == {Response(200, FirstHeaders, SomeBody), Response(204, NoHeaders, Undefined)}
ClientErrors ==
  {AxiosError(Response(429, NoHeaders, Undefined), Str(<<>>), Undefined),
   AxiosError(Undefined, Str(<<>>), Str("ECONNABORTED"))}
SecondResponses == {Response(200, SecondHeaders, SomeBody), Response(204, NoHeaders, Undefined)}
SecondErrors == {AxiosError(Response(429, NoHeaders, Undefined), Str(<<>>), Undefined)}

\* this.client.request<T>(config): axios merges the instance defaults into the
\* request it sends
Send ==
  /\ Request
  /\ sent' = Append(sent, [baseURL |-> client.baseURL, timeout |-> client.timeout,
                           headers |-> client.headers])
  /\ UNCHANGED <<client, resetFrom, second>>

\* history: headers with a string reset header make their request the one the
\* stored reset time comes from
StoredBy(id, headers) ==
  IF IsString(headers.reset) THEN [id |-> id, inflight |-> inflight \ {id}] ELSE resetFrom

\* a response arrives at the first instance
Deliver(id, response) ==
  /\ OnFulfilled(id, response)
  /\ resetFrom' = StoredBy(id, response.headers)
  /\ UNCHANGED <<client, sent, second>>

\* a failure arrives at the first instance
DeliverFailure(id, error) ==
  /\ OnRejected(id, error)
  /\ resetFrom' = IF Truthy(error.response) THEN StoredBy(id, error.response.headers)
                  ELSE resetFrom
  /\ UNCHANGED <<client, sent, second>>

\* the tracker is a field shared by all instances
SecondDeliver_SharedTracker(response) ==
  /\ rateLimitTracker' = updateFromHeaders(rateLimitTracker, response.headers)
  /\ second' = [rateLimitTracker |-> rateLimitTracker',
                settled |-> [type |-> "resolved", value |-> response.data]]
  /\ UNCHANGED <<issued, inflight, last, processed, failures, lastValidRemaining,
                 client, sent, resetFrom>>

\* the second instance's interceptor, fulfilled: its own tracker is updated
SecondDeliver(response) ==
  /\ second' = [rateLimitTracker |-> updateFromHeaders(second.rateLimitTracker, response.headers),
                settled |-> [type |-> "resolved", value |-> response.data]]
  /\ UNCHANGED <<transportVars, client, sent, resetFrom>>

\* the second instance's interceptor, rejected: its own tracker is updated and
\* handed to handleError
SecondFailure(error) ==
  LET tracker == IF Truthy(error.response)
                 THEN updateFromHeaders(second.rateLimitTracker, error.response.headers)
                 ELSE second.rateLimitTracker
  IN /\ second' = [rateLimitTracker |-> tracker,
                   settled |-> [type |-> "rejected", value |-> handleError(error, tracker).value]]
     /\ UNCHANGED <<transportVars, client, sent, resetFrom>>

InitClients == \E cfg \in ClientConfigs : Constructed(cfg)

NextClients ==
  \/ Send /\ UNCHANGED <<methodVars, monolith>>
  \/ \E id \in inflight, response \in ClientResponses :
       /\ Deliver(id, response)
       /\ IntervalsClient_OnFulfilled(response)
       /\ UNCHANGED methodVars
  \/ \E id \in inflight, error \in ClientErrors :
       /\ DeliverFailure(id, error)
       /\ IntervalsClient_OnRejected(error)
       /\ UNCHANGED methodVars
  \/ \E response \in SecondResponses :
       SecondDeliver(response) /\ UNCHANGED <<methodVars, monolith>>
  \/ \E error \in SecondErrors :
       SecondFailure(error) /\ UNCHANGED <<methodVars, monolith>>

\* two instances, the first with its requests in flight
SpecClients == InitClients /\ [][NextClients]_vars

-----------------------------------------------------------------------------
(* The resource methods of IntervalsClient.  Each builds the descriptors    *)
(* of the requests it hands to request<T> and says what it returns.  The    *)
(* caller awaits one call before making the next; the requests of a single  *)
(* call are answered in any order.                                          *)

PathAthlete == <<"/", "a", "t", "h", "l", "e", "t", "e", "/">>
PathActivity == <<"/", "a", "c", "t", "i", "v", "i", "t", "y", "/">>
Slash == <<"/">>
SegEvents == <<"/", "e", "v", "e", "n", "t", "s">>
SegWellness == <<"/", "w", "e", "l", "l", "n", "e", "s", "s">>
SegWorkouts == <<"/", "w", "o", "r", "k", "o", "u", "t", "s">>
SegActivities == <<"/", "a", "c", "t", "i", "v", "i", "t", "i", "e", "s">>
SegStreams == <<"/", "s", "t", "r", "e", "a", "m", "s">>
ExtCsv == <<".", "c", "s", "v">>
ExtJson == <<".", "j", "s", "o", "n">>
SegIntervals == <<"/", "i", "n", "t", "e", "r", "v", "a", "l", "s">>
SegDeleteIntervals == <<"/", "d", "e", "l", "e", "t", "e", "-", "i", "n", "t", "e", "r", "v", "a", "l", "s">>
SegSplitInterval == <<"/", "s", "p", "l", "i", "t", "-", "i", "n", "t", "e", "r", "v", "a", "l">>
SegBulkDelete == <<"/", "e", "v", "e", "n", "t", "s", "/", "b", "u", "l", "k", "-", "d", "e", "l", "e", "t", "e">>
SegWellnessBulk == <<"/", "w", "e", "l", "l", "n", "e", "s", "s", "-", "b", "u", "l", "k">>

\* what a method does with the outcome of its requests:
\* `return this.request<T>(...)`, `await this.request<void>(...)` with no
\* return, and `return Promise.all(promises)`
ResponseData == "data"
NoValue == "void"
AllData == "all"

getAthlete(athleteIdArg) ==
  LET id == Or(athleteIdArg, athleteId)
  IN [requests |-> <<[method |-> "GET", url |-> PathAthlete \o Interpolate(id), data |-> Undefined]>>,
      returns |-> ResponseData]

updateAthlete(data, athleteIdArg) ==
  LET id == Or(athleteIdArg, athleteId)
  IN [requests |-> <<[method |-> "PUT", url |-> PathAthlete \o Interpolate(id), data |-> data]>>,
      returns |-> ResponseData]

getEvents(options, athleteIdArg) ==
  LET id == Or(athleteIdArg, athleteId)
  IN [requests |-> <<[method |-> "GET", url |-> PathAthlete \o Interpolate(id) \o SegEvents, params |-> options, data |-> Undefined]>>,
      returns |-> ResponseData]

getEvent(eventId, athleteIdArg) ==
  LET id == Or(athleteIdArg, athleteId)
  IN [requests |-> <<[method |-> "GET", url |-> PathAthlete \o Interpolate(id) \o SegEvents \o Slash \o Interpolate(eventId), data |-> Undefined]>>,
      returns |-> ResponseData]

createEvent(data, athleteIdArg) ==
  LET id == Or(athleteIdArg, athleteId)
  IN [requests |-> <<[method |-> "POST", url |-> PathAthlete \o Interpolate(id) \o SegEvents, data |-> data]>>,
      returns |-> ResponseData]

updateEvent(eventId, data, athleteIdArg) ==
  LET id == Or(athleteIdArg, athleteId)
  IN [requests |-> <<[method |-> "PUT", url |-> PathAthlete \o Interpolate(id) \o SegEvents \o Slash \o Interpolate(eventId), data |-> data]>>,
      returns |-> ResponseData]

\* the delete hands on what the server answered
deleteEvent_ReturnsData(eventId, athleteIdArg) ==
  LET id == Or(athleteIdArg, athleteId)
  IN [requests |-> <<[method |-> "DELETE", url |-> PathAthlete \o Interpolate(id) \o SegEvents \o Slash \o Interpolate(eventId), data |-> Undefined]>>,
      returns |-> ResponseData]

deleteEvent(eventId, athleteIdArg) ==
  LET id == Or(athleteIdArg, athleteId)
  IN [requests |-> <<[method |-> "DELETE", url |-> PathAthlete \o Interpolate(id) \o SegEvents \o Slash \o Interpolate(eventId), data |-> Undefined]>>,
      returns |-> NoValue]

getWellness(options, athleteIdArg) ==
  LET id == Or(athleteIdArg, athleteId)
  IN [requests |-> <<[method |-> "GET", url |-> PathAthlete \o Interpolate(id) \o SegWellness, params |-> options, data |-> Undefined]>>,
      returns |-> ResponseData]

createWellness(data, athleteIdArg) ==
  LET id == Or(athleteIdArg, athleteId)
  IN [requests |-> <<[method |-> "POST", url |-> PathAthlete \o Interpolate(id) \o SegWellness, data |-> data]>>,
      returns |-> ResponseData]

updateWellness(date, data, athleteIdArg) ==
  LET id == Or(athleteIdArg, athleteId)
  IN [requests |-> <<[method |-> "PUT", url |-> PathAthlete \o Interpolate(id) \o SegWellness \o Slash \o Interpolate(date), data |-> data]>>,
      returns |-> ResponseData]

deleteWellness(date, athleteIdArg) ==
  LET id == Or(athleteIdArg, athleteId)
  IN [requests |-> <<[method |-> "DELETE", url |-> PathAthlete \o Interpolate(id) \o SegWellness \o Slash \o Interpolate(date), data |-> Undefined]>>,
      returns |-> NoValue]

getWorkouts(options, athleteIdArg) ==
  LET id == Or(athleteIdArg, athleteId)
  IN [requests |-> <<[method |-> "GET", url |-> PathAthlete \o Interpolate(id) \o SegWorkouts, params |-> options, data |-> Undefined]>>,
      returns |-> ResponseData]

getWorkout(workoutId, athleteIdArg) ==
  LET id == Or(athleteIdArg, athleteId)
  IN [requests |-> <<[method |-> "GET", url |-> PathAthlete \o Interpolate(id) \o SegWorkouts \o Slash \o Interpolate(workoutId), data |-> Undefined]>>,
      returns |-> ResponseData]

createWorkout(data, athleteIdArg) ==
  LET id == Or(athleteIdArg, athleteId)
  IN [requests |-> <<[method |-> "POST", url |-> PathAthlete \o Interpolate(id) \o SegWorkouts, data |-> data]>>,
      returns |-> ResponseData]

updateWorkout(workoutId, data, athleteIdArg) ==
  LET id == Or(athleteIdArg, athleteId)
  IN [requests |-> <<[method |-> "PUT", url |-> PathAthlete \o Interpolate(id) \o SegWorkouts \o Slash \o Interpolate(workoutId), data |-> data]>>,
      returns |-> ResponseData]

deleteWorkout(workoutId, athleteIdArg) ==
  LET id == Or(athleteIdArg, athleteId)
  IN [requests |-> <<[method |-> "DELETE", url |-> PathAthlete \o Interpolate(id) \o SegWorkouts \o Slash \o Interpolate(workoutId), data |-> Undefined]>>,
      returns |-> NoValue]

getActivities(options, athleteIdArg) ==
  LET id == Or(athleteIdArg, athleteId)
  IN [requests |-> <<[method |-> "GET", url |-> PathAthlete \o Interpolate(id) \o SegActivities, params |-> options, data |-> Undefined]>>,
      returns |-> ResponseData]

getActivity(activityId, athleteIdArg) ==
  LET id == Or(athleteIdArg, athleteId)
  IN [requests |-> <<[method |-> "GET", url |-> PathAthlete \o Interpolate(id) \o SegActivities \o Slash \o Interpolate(activityId), data |-> Undefined]>>,
      returns |-> ResponseData]

updateActivity(activityId, data, athleteIdArg) ==
  LET id == Or(athleteIdArg, athleteId)
  IN [requests |-> <<[method |-> "PUT", url |-> PathAthlete \o Interpolate(id) \o SegActivities \o Slash \o Interpolate(activityId), data |-> data]>>,
      returns |-> ResponseData]

deleteActivity(activityId, athleteIdArg) ==
  LET id == Or(athleteIdArg, athleteId)
  IN [requests |-> <<[method |-> "DELETE", url |-> PathAthlete \o Interpolate(id) \o SegActivities \o Slash \o Interpolate(activityId), data |-> Undefined]>>,
      returns |-> NoValue]

getActivityStreams(activityId, format) ==
  [requests |-> <<[method |-> "GET", url |-> PathActivity \o Interpolate(activityId) \o SegStreams \o (IF format = Str(ExtCsv) THEN ExtCsv ELSE ExtJson), data |-> Undefined]>>,
   returns |-> ResponseData]

updateActivityStreams(activityId, streams) ==
  [requests |-> <<[method |-> "PUT", url |-> PathActivity \o Interpolate(activityId) \o SegStreams, data |-> streams]>>,
   returns |-> ResponseData]

updateActivityStreamsFromCSV(activityId, csvFile) ==
  [requests |-> <<[method |-> "PUT", url |-> PathActivity \o Interpolate(activityId) \o SegStreams \o ExtCsv, data |-> csvFile]>>,
   returns |-> ResponseData]

getActivityIntervals(activityId) ==
  [requests |-> <<[method |-> "GET", url |-> PathActivity \o Interpolate(activityId) \o SegIntervals, data |-> Undefined]>>,
   returns |-> ResponseData]

updateActivityIntervals(activityId, intervals) ==
  [requests |-> <<[method |-> "PUT", url |-> PathActivity \o Interpolate(activityId) \o SegIntervals, data |-> intervals]>>,
   returns |-> ResponseData]

deleteActivityIntervals(activityId, intervals) ==
  [requests |-> <<[method |-> "PUT", url |-> PathActivity \o Interpolate(activityId) \o SegDeleteIntervals, data |-> intervals]>>,
   returns |-> ResponseData]

splitInterval(activityId) ==
  [requests |-> <<[method |-> "PUT", url |-> PathActivity \o Interpolate(activityId) \o SegSplitInterval, data |-> Undefined]>>,
   returns |-> ResponseData]

updateInterval(activityId, intervalId, interval) ==
  [requests |-> <<[method |-> "PUT", url |-> PathActivity \o Interpolate(activityId) \o SegIntervals \o Slash \o Interpolate(intervalId), data |-> interval]>>,
   returns |-> ResponseData]

getActivityWithIntervals(activityId) ==
  [requests |-> <<[method |-> "GET", url |-> PathActivity \o Interpolate(activityId), data |-> Undefined]>>,
   returns |-> ResponseData]

\* one request<T> per event of the list, all started before any is awaited
\* the whole list goes out as the body of one POST
createEventsBulk_OneRequest(events, athleteIdArg) ==
  LET id == Or(athleteIdArg, athleteId)
  IN [requests |-> <<[method |-> "POST", url |-> PathAthlete \o Interpolate(id) \o SegEvents,
                      data |-> ArrayValue]>>,
      returns |-> AllData]

createEventsBulk(events, athleteIdArg) ==
  LET id == Or(athleteIdArg, athleteId)
  IN [requests |-> [k \in 1..Len(events) |->
                      [method |-> "POST", url |-> PathAthlete \o Interpolate(id) \o SegEvents,
                       data |-> events[k]]],
      returns |-> AllData]

\* one request per doomed event instead of one for the list
deleteEventsBulk_PerEvent(doomedEvents, athleteIdArg) ==
  LET id == Or(athleteIdArg, athleteId)
  IN [requests |-> [k \in 1..Len(doomedEvents) |->
                      [method |-> "PUT", url |-> PathAthlete \o Interpolate(id) \o SegBulkDelete,
                       data |-> doomedEvents[k]]],
      returns |-> ResponseData]

deleteEventsBulk(doomedEvents, athleteIdArg) ==
  LET id == Or(athleteIdArg, athleteId)
  IN [requests |-> <<[method |-> "PUT", url |-> PathAthlete \o Interpolate(id) \o SegBulkDelete, data |-> doomedEvents]>>,
      returns |-> ResponseData]

deleteEventsRange(athleteIdArg) ==
  LET id == Or(athleteIdArg, athleteId)
  IN [requests |-> <<[method |-> "DELETE", url |-> PathAthlete \o Interpolate(id) \o SegEvents, data |-> Undefined]>>,
      returns |-> NoValue]

updateEventsRange(data, athleteIdArg) ==
  LET id == Or(athleteIdArg, athleteId)
  IN [requests |-> <<[method |-> "PUT", url |-> PathAthlete \o Interpolate(id) \o SegEvents, data |-> data]>>,
      returns |-> ResponseData]

updateWellnessBulk(wellnessRecords, athleteIdArg) ==
  LET id == Or(athleteIdArg, athleteId)
  IN [requests |-> <<[method |-> "PUT", url |-> PathAthlete \o Interpolate(id) \o SegWellnessBulk, data |-> wellnessRecords]>>,
      returns |-> NoValue]

-----------------------------------------------------------------------------
(* The calls a caller makes *)

MaxEvents == 2

\* athlete ids a caller passes: none, the empty string, an id
AthleteIdArgs == {Undefined, Str(<<>>), Str(<<"i", "4", "2">>)}
\* configurations: no athlete id, the empty string, an id
Configs ==
  {IntervalsConfig(Str(<<"k">>), a, Undefined, Undefined) :
     a \in {Undefined, Str(<<>>), Str(<<"i", "7">>)}}

EventId == Num(99999)
WorkoutId == Num(7)
ActivityId == Num(12345)
IntervalId == Num(1)
WellnessDate == Str(<<"2", "0", "2", "4", "-", "0", "1", "-", "1", "5">>)
Payload == [t |-> "object", name |-> "X"]
\* PaginationOptions of a list call
Options == [t |-> "object", oldest |-> "2024-01-01", newest |-> "2024-12-31"]
\* lists of up to MaxEvents distinct entries
EntryList(n) == [k \in 1..n |-> [t |-> "object", name |-> k]]
EntryLists == {EntryList(n) : n \in 0..MaxEvents}

AthleteScoped ==
  {"getAthlete", "updateAthlete", "getEvents", "getEvent",
   "createEvent", "updateEvent", "deleteEvent", "getWellness",
   "createWellness", "updateWellness", "deleteWellness", "getWorkouts",
   "getWorkout", "createWorkout", "updateWorkout", "deleteWorkout",
   "getActivities", "getActivity", "updateActivity", "deleteActivity",
   "deleteEventsRange", "updateEventsRange"}
ListTaking == {"createEventsBulk", "deleteEventsBulk", "updateWellnessBulk"}
ActivityScoped ==
  {"updateActivityStreams", "updateActivityStreamsFromCSV", "getActivityIntervals",
   "updateActivityIntervals", "deleteActivityIntervals", "splitInterval",
   "updateInterval", "getActivityWithIntervals"}

Invocations ==
  {[name |-> n, athleteId |-> a, list |-> <<>>, format |-> Undefined] :
     n \in AthleteScoped, a \in AthleteIdArgs}
    \cup {[name |-> n, athleteId |-> a, list |-> l, format |-> Undefined] :
            n \in ListTaking, a \in AthleteIdArgs, l \in EntryLists}
    \cup {[name |-> n, athleteId |-> Undefined, list |-> <<>>, format |-> Undefined] :
            n \in ActivityScoped}
    \cup {[name |-> "getActivityStreams", athleteId |-> Undefined, list |-> <<>>, format |-> f] :
            f \in {Undefined, Str(ExtCsv)}}

\* client.method(...arguments)
Dispatch(invocation) ==
  CASE invocation.name = "getAthlete" -> getAthlete(invocation.athleteId)
    [] invocation.name = "updateAthlete" -> updateAthlete(Payload, invocation.athleteId)
    [] invocation.name = "getEvents" -> getEvents(Options, invocation.athleteId)
    [] invocation.name = "getEvent" -> getEvent(EventId, invocation.athleteId)
    [] invocation.name = "createEvent" -> createEvent(Payload, invocation.athleteId)
    [] invocation.name = "updateEvent" -> updateEvent(EventId, Payload, invocation.athleteId)
    [] invocation.name = "deleteEvent" -> deleteEvent(EventId, invocation.athleteId)
    [] invocation.name = "getWellness" -> getWellness(Options, invocation.athleteId)
    [] invocation.name = "createWellness" -> createWellness(Payload, invocation.athleteId)
    [] invocation.name = "updateWellness" -> updateWellness(WellnessDate, Payload, invocation.athleteId)
    [] invocation.name = "deleteWellness" -> deleteWellness(WellnessDate, invocation.athleteId)
    [] invocation.name = "getWorkouts" -> getWorkouts(Options, invocation.athleteId)
    [] invocation.name = "getWorkout" -> getWorkout(WorkoutId, invocation.athleteId)
    [] invocation.name = "createWorkout" -> createWorkout(Payload, invocation.athleteId)
    [] invocation.name = "updateWorkout" -> updateWorkout(WorkoutId, Payload, invocation.athleteId)
    [] invocation.name = "deleteWorkout" -> deleteWorkout(WorkoutId, invocation.athleteId)
    [] invocation.name = "getActivities" -> getActivities(Options, invocation.athleteId)
    [] invocation.name = "getActivity" -> getActivity(ActivityId, invocation.athleteId)
    [] invocation.name = "updateActivity" -> updateActivity(ActivityId, Payload, invocation.athleteId)
    [] invocation.name = "deleteActivity" -> deleteActivity(ActivityId, invocation.athleteId)
    [] invocation.name = "getActivityStreams" -> getActivityStreams(ActivityId, invocation.format)
    [] invocation.name = "updateActivityStreams" -> updateActivityStreams(ActivityId, Payload)
    [] invocation.name = "updateActivityStreamsFromCSV" -> updateActivityStreamsFromCSV(ActivityId, Payload)
    [] invocation.name = "getActivityIntervals" -> getActivityIntervals(ActivityId)
    [] invocation.name = "updateActivityIntervals" -> updateActivityIntervals(ActivityId, Payload)
    [] invocation.name = "deleteActivityIntervals" -> deleteActivityIntervals(ActivityId, Payload)
    [] invocation.name = "splitInterval" -> splitInterval(ActivityId)
    [] invocation.name = "updateInterval" -> updateInterval(ActivityId, IntervalId, Payload)
    [] invocation.name = "getActivityWithIntervals" -> getActivityWithIntervals(ActivityId)
    [] invocation.name = "deleteEventsBulk" -> deleteEventsBulk(invocation.list, invocation.athleteId)
    [] invocation.name = "deleteEventsRange" -> deleteEventsRange(invocation.athleteId)
    [] invocation.name = "updateEventsRange" -> updateEventsRange(Payload, invocation.athleteId)
    [] invocation.name = "updateWellnessBulk" -> updateWellnessBulk(invocation.list, invocation.athleteId)
    [] invocation.name = "createEventsBulk" -> createEventsBulk(invocation.list, invocation.athleteId)

\* what the server answers to the requests of a method
AthleteBody == [t |-> "object", message |-> Undefined, id |-> "i1", name |-> "A"]
EventBody == [t |-> "object", message |-> Undefined, id |-> 100, name |-> "X"]
MethodResponses ==
  {Response(200, NoHeaders, AthleteBody),
   Response(201, [remaining |-> Str(<<"9", "8">>), reset |-> Str(<<"1", "6", "4", "0", "0", "0", "0">>)],
            EventBody),
   Response(204, NoHeaders, Undefined)}
MethodErrors ==
  {AxiosError(Response(404, NoHeaders, SomeBody), Str(<<"N", "e", "t", "w", "o", "r", "k", " ", "E", "r", "r", "o", "r">>), Undefined),
   AxiosError(Response(429, [remaining |-> Str(<<"5", "0">>), reset |-> Str(<<"0">>)], Undefined),
              Str(<<"N", "e", "t", "w", "o", "r", "k", " ", "E", "r", "r", "o", "r">>), Undefined),
   AxiosError(Undefined, Str(<<>>), Str("ECONNABORTED"))}

\* a request<T> invocation whose promise has not settled
Pending == [type |-> "pending", value |-> Undefined]
ArrayOf(items) == [t |-> "array", items |-> items]

\* the ids of the HTTP requests a call has put in flight
RequestIds(c) == c.first .. (c.first + Len(c.requests) - 1)

\* the value a method's promise resolves with once all its requests have
ReturnValue(c, results) ==
  IF c.returns = ResponseData THEN results[1].value
  ELSE IF c.returns = NoValue THEN Undefined
  ELSE ArrayOf([k \in 1..Len(results) |-> results[k].value])

\* the promise of request<T> for HTTP request id has settled with outcome:
\* a single-request method settles with it, Promise.all rejects with the
\* first rejection and resolves when every promise has resolved
\* a later failure of the same call replaces the error the call was rejected with
Settle_LastFailureWins(c, id, outcome) ==
  IF id \notin RequestIds(c) THEN c
  ELSE LET results == [c.results EXCEPT ![id - c.first + 1] = outcome]
       IN IF outcome.type = "rejected"
          THEN [c EXCEPT !.results = results, !.state = "rejected", !.value = outcome.value]
          ELSE IF c.state # "pending" THEN [c EXCEPT !.results = results]
          ELSE IF \A k \in 1..Len(results) : results[k].type = "resolved"
          THEN [c EXCEPT !.results = results, !.state = "resolved",
                         !.value = ReturnValue(c, results)]
          ELSE [c EXCEPT !.results = results]

Settle(c, id, outcome) ==
  IF id \notin RequestIds(c) THEN c
  ELSE LET results == [c.results EXCEPT ![id - c.first + 1] = outcome]
       IN IF c.state # "pending" THEN [c EXCEPT !.results = results]
          ELSE IF outcome.type = "rejected"
          THEN [c EXCEPT !.results = results, !.state = "rejected", !.value = outcome.value]
          ELSE IF \A k \in 1..Len(results) : results[k].type = "resolved"
          THEN [c EXCEPT !.results = results, !.state = "resolved",
                         !.value = ReturnValue(c, results)]
          ELSE [c EXCEPT !.results = results]

\* a failed request is sent once more instead of rejecting the call
Fail_RetryOnce(id, error) ==
  /\ id \in inflight
  /\ IF id \in RequestIds(call) /\ failures = 0
     THEN /\ issued' = issued + 1
          /\ inflight' = (inflight \ {id}) \cup {issued + 1}
          /\ owner' = Append(owner, owner[id])
          /\ failures' = failures + 1
          /\ UNCHANGED <<rateLimitTracker, last, processed, lastValidRemaining, call>>
     ELSE /\ OnRejected(id, error)
          /\ call' = Settle(call, id, last'.settled)
          /\ UNCHANGED owner
  /\ UNCHANGED <<config, athleteId, overridden>>

\* the athlete id given to one call becomes the default of the client
Invoke_StickyAthleteId(invocation) ==
  /\ call.state # "pending"
  /\ call.n < MaxCalls
  /\ LET plan == Dispatch(invocation)
         count == Len(plan.requests)
     IN /\ issued' = issued + count
        /\ inflight' = inflight \cup ((issued + 1) .. (issued + count))
        /\ owner' = owner \o [k \in 1..count |-> [call |-> call.n + 1, slot |-> k]]
        /\ call' = [n |-> call.n + 1, invocation |-> invocation, first |-> issued + 1,
                    requests |-> plan.requests, returns |-> plan.returns,
                    results |-> [k \in 1..count |-> Pending],
                    state |-> IF count = 0 THEN "resolved" ELSE "pending",
                    value |-> IF count = 0 THEN ArrayOf(<<>>) ELSE Undefined]
  /\ overridden' = (overridden \/ Truthy(invocation.athleteId))
  /\ athleteId' = Or(invocation.athleteId, athleteId)
  /\ UNCHANGED <<rateLimitTracker, last, processed, failures, lastValidRemaining, config>>

\* a caller calls a resource method: the method builds its descriptors and
\* hands each to request<T>, which puts one HTTP request in flight; a
\* Promise.all over no promise resolves with the empty list
Invoke(invocation) ==
  /\ call.state # "pending"
  /\ call.n < MaxCalls
  /\ LET plan == Dispatch(invocation)
         count == Len(plan.requests)
     IN /\ issued' = issued + count
        /\ inflight' = inflight \cup ((issued + 1) .. (issued + count))
        /\ owner' = owner \o [k \in 1..count |-> [call |-> call.n + 1, slot |-> k]]
        /\ call' = [n |-> call.n + 1, invocation |-> invocation, first |-> issued + 1,
                    requests |-> plan.requests, returns |-> plan.returns,
                    results |-> [k \in 1..count |-> Pending],
                    state |-> IF count = 0 THEN "resolved" ELSE "pending",
                    value |-> IF count = 0 THEN ArrayOf(<<>>) ELSE Undefined]
  /\ overridden' = (overridden \/ Truthy(invocation.athleteId))
  /\ UNCHANGED <<rateLimitTracker, last, processed, failures, lastValidRemaining,
                 config, athleteId>>

\* only a 200 has its body handed to the caller
Respond_Only200(id, response) ==
  /\ OnFulfilled(id, response)
  /\ call' = Settle(call, id, IF response.status = 200 THEN last'.settled
                               ELSE [type |-> "resolved", value |-> Undefined])
  /\ UNCHANGED <<config, athleteId, owner, overridden>>

\* a response arrives: the interceptor runs, request<T> returns response.data
\* and the method's promise settles
Respond(id, response) ==
  /\ OnFulfilled(id, response)
  /\ call' = Settle(call, id, last'.settled)
  /\ UNCHANGED <<config, athleteId, owner, overridden>>

\* a failure arrives: the interceptor rejects with the normalized error, and
\* so do request<T> and the method
Fail(id, error) ==
  /\ OnRejected(id, error)
  /\ call' = Settle(call, id, last'.settled)
  /\ UNCHANGED <<config, athleteId, owner, overridden>>

InitCalls == \E cfg \in Configs : Constructed(cfg)

NextCalls ==
  \/ \E invocation \in Invocations :
       Invoke(invocation) /\ UNCHANGED <<instanceVars, monolith>>
  \/ \E id \in inflight, response \in MethodResponses :
       /\ Respond(id, response)
       /\ IntervalsClient_OnFulfilled(response)
       /\ UNCHANGED instanceVars
  \/ \E id \in inflight, error \in MethodErrors :
       /\ Fail(id, error)
       /\ IntervalsClient_OnRejected(error)
       /\ UNCHANGED instanceVars

\* the client as its callers use it
SpecCalls == InitCalls /\ [][NextCalls]_vars

-----------------------------------------------------------------------------
(* The service-composed IntervalsClient: a facade over one service per      *)
(* resource, each holding the default athlete id it was constructed with.   *)
(* The wellness, workout and activity services follow the resource paths    *)
(* and the contract of the resource services in the specification.          *)

\* const athleteId = config.athleteId || 'me', handed to every service
defaultAthleteId == Or(config.athleteId, Str(<<"m", "e">>))

AthleteService_getAthlete(athleteIdArg) ==
  LET id == Or(athleteIdArg, defaultAthleteId)
  IN [requests |-> <<[method |-> "GET", url |-> PathAthlete \o Interpolate(id), data |-> Undefined]>>,
      returns |-> ResponseData]

AthleteService_updateAthlete(data, athleteIdArg) ==
  LET id == Or(athleteIdArg, defaultAthleteId)
  IN [requests |-> <<[method |-> "PUT", url |-> PathAthlete \o Interpolate(id), data |-> data]>>,
      returns |-> ResponseData]

EventService_getEvents(options, athleteIdArg) ==
  LET id == Or(athleteIdArg, defaultAthleteId)
  IN [requests |-> <<[method |-> "GET", url |-> PathAthlete \o Interpolate(id) \o SegEvents, params |-> options, data |-> Undefined]>>,
      returns |-> ResponseData]

EventService_getEvent(eventId, athleteIdArg) ==
  LET id == Or(athleteIdArg, defaultAthleteId)
  IN [requests |-> <<[method |-> "GET", url |-> PathAthlete \o Interpolate(id) \o SegEvents \o Slash \o Interpolate(eventId), data |-> Undefined]>>,
      returns |-> ResponseData]

EventService_createEvent(data, athleteIdArg) ==
  LET id == Or(athleteIdArg, defaultAthleteId)
  IN [requests |-> <<[method |-> "POST", url |-> PathAthlete \o Interpolate(id) \o SegEvents, data |-> data]>>,
      returns |-> ResponseData]

EventService_updateEvent(eventId, data, athleteIdArg) ==
  LET id == Or(athleteIdArg, defaultAthleteId)
  IN [requests |-> <<[method |-> "PUT", url |-> PathAthlete \o Interpolate(id) \o SegEvents \o Slash \o Interpolate(eventId), data |-> data]>>,
      returns |-> ResponseData]

EventService_deleteEvent(eventId, athleteIdArg) ==
  LET id == Or(athleteIdArg, defaultAthleteId)
  IN [requests |-> <<[method |-> "DELETE", url |-> PathAthlete \o Interpolate(id) \o SegEvents \o Slash \o Interpolate(eventId), data |-> Undefined]>>,
      returns |-> NoValue]

WellnessService_getWellness(options, athleteIdArg) ==
  LET id == Or(athleteIdArg, defaultAthleteId)
  IN [requests |-> <<[method |-> "GET", url |-> PathAthlete \o Interpolate(id) \o SegWellness, params |-> options, data |-> Undefined]>>,
      returns |-> ResponseData]

WellnessService_createWellness(data, athleteIdArg) ==
  LET id == Or(athleteIdArg, defaultAthleteId)
  IN [requests |-> <<[method |-> "POST", url |-> PathAthlete \o Interpolate(id) \o SegWellness, data |-> data]>>,
      returns |-> ResponseData]

WellnessService_updateWellness(date, data, athleteIdArg) ==
  LET id == Or(athleteIdArg, defaultAthleteId)
  IN [requests |-> <<[method |-> "PUT", url |-> PathAthlete \o Interpolate(id) \o SegWellness \o Slash \o Interpolate(date), data |-> data]>>,
      returns |-> ResponseData]

WellnessService_deleteWellness(date, athleteIdArg) ==
  LET id == Or(athleteIdArg, defaultAthleteId)
  IN [requests |-> <<[method |-> "DELETE", url |-> PathAthlete \o Interpolate(id) \o SegWellness \o Slash \o Interpolate(date), data |-> Undefined]>>,
      returns |-> NoValue]

WorkoutService_getWorkouts(options, athleteIdArg) ==
  LET id == Or(athleteIdArg, defaultAthleteId)
  IN [requests |-> <<[method |-> "GET", url |-> PathAthlete \o Interpolate(id) \o SegWorkouts, params |-> options, data |-> Undefined]>>,
      returns |-> ResponseData]

WorkoutService_getWorkout(workoutId, athleteIdArg) ==
  LET id == Or(athleteIdArg, defaultAthleteId)
  IN [requests |-> <<[method |-> "GET", url |-> PathAthlete \o Interpolate(id) \o SegWorkouts \o Slash \o Interpolate(workoutId), data |-> Undefined]>>,
      returns |-> ResponseData]

WorkoutService_createWorkout(data, athleteIdArg) ==
  LET id == Or(athleteIdArg, defaultAthleteId)
  IN [requests |-> <<[method |-> "POST", url |-> PathAthlete \o Interpolate(id) \o SegWorkouts, data |-> data]>>,
      returns |-> ResponseData]

WorkoutService_updateWorkout(workoutId, data, athleteIdArg) ==
  LET id == Or(athleteIdArg, defaultAthleteId)
  IN [requests |-> <<[method |-> "PUT", url |-> PathAthlete \o Interpolate(id) \o SegWorkouts \o Slash \o Interpolate(workoutId), data |-> data]>>,
      returns |-> ResponseData]

WorkoutService_deleteWorkout(workoutId, athleteIdArg) ==
  LET id == Or(athleteIdArg, defaultAthleteId)
  IN [requests |-> <<[method |-> "DELETE", url |-> PathAthlete \o Interpolate(id) \o SegWorkouts \o Slash \o Interpolate(workoutId), data |-> Undefined]>>,
      returns |-> NoValue]

ActivityService_getActivities(options, athleteIdArg) ==
  LET id == Or(athleteIdArg, defaultAthleteId)
  IN [requests |-> <<[method |-> "GET", url |-> PathAthlete \o Interpolate(id) \o SegActivities, params |-> options, data |-> Undefined]>>,
      returns |-> ResponseData]

ActivityService_getActivity(activityId, athleteIdArg) ==
  LET id == Or(athleteIdArg, defaultAthleteId)
  IN [requests |-> <<[method |-> "GET", url |-> PathAthlete \o Interpolate(id) \o SegActivities \o Slash \o Interpolate(activityId), data |-> Undefined]>>,
      returns |-> ResponseData]

ActivityService_updateActivity(activityId, data, athleteIdArg) ==
  LET id == Or(athleteIdArg, defaultAthleteId)
  IN [requests |-> <<[method |-> "PUT", url |-> PathAthlete \o Interpolate(id) \o SegActivities \o Slash \o Interpolate(activityId), data |-> data]>>,
      returns |-> ResponseData]

ActivityService_deleteActivity(activityId, athleteIdArg) ==
  LET id == Or(athleteIdArg, defaultAthleteId)
  IN [requests |-> <<[method |-> "DELETE", url |-> PathAthlete \o Interpolate(id) \o SegActivities \o Slash \o Interpolate(activityId), data |-> Undefined]>>,
      returns |-> NoValue]

\* the operations both clients offer
SharedOperations ==
  {"getAthlete", "updateAthlete", "getEvents", "getEvent",
   "createEvent", "updateEvent", "deleteEvent", "getWellness",
   "createWellness", "updateWellness", "deleteWellness", "getWorkouts",
   "getWorkout", "createWorkout", "updateWorkout", "deleteWorkout",
   "getActivities", "getActivity", "updateActivity", "deleteActivity"}

\* the facade: every method hands its arguments to the service of its resource
ComposedDispatch(invocation) ==
  CASE invocation.name = "getAthlete" -> AthleteService_getAthlete(invocation.athleteId)
    [] invocation.name = "updateAthlete" -> AthleteService_updateAthlete(Payload, invocation.athleteId)
    [] invocation.name = "getEvents" -> EventService_getEvents(Options, invocation.athleteId)
    [] invocation.name = "getEvent" -> EventService_getEvent(EventId, invocation.athleteId)
    [] invocation.name = "createEvent" -> EventService_createEvent(Payload, invocation.athleteId)
    [] invocation.name = "updateEvent" -> EventService_updateEvent(EventId, Payload, invocation.athleteId)
    [] invocation.name = "deleteEvent" -> EventService_deleteEvent(EventId, invocation.athleteId)
    [] invocation.name = "getWellness" -> WellnessService_getWellness(Options, invocation.athleteId)
    [] invocation.name = "createWellness" -> WellnessService_createWellness(Payload, invocation.athleteId)
    [] invocation.name = "updateWellness" -> WellnessService_updateWellness(WellnessDate, Payload, invocation.athleteId)
    [] invocation.name = "deleteWellness" -> WellnessService_deleteWellness(WellnessDate, invocation.athleteId)
    [] invocation.name = "getWorkouts" -> WorkoutService_getWorkouts(Options, invocation.athleteId)
    [] invocation.name = "getWorkout" -> WorkoutService_getWorkout(WorkoutId, invocation.athleteId)
    [] invocation.name = "createWorkout" -> WorkoutService_createWorkout(Payload, invocation.athleteId)
    [] invocation.name = "updateWorkout" -> WorkoutService_updateWorkout(WorkoutId, Payload, invocation.athleteId)
    [] invocation.name = "deleteWorkout" -> WorkoutService_deleteWorkout(WorkoutId, invocation.athleteId)
    [] invocation.name = "getActivities" -> ActivityService_getActivities(Options, invocation.athleteId)
    [] invocation.name = "getActivity" -> ActivityService_getActivity(ActivityId, invocation.athleteId)
    [] invocation.name = "updateActivity" -> ActivityService_updateActivity(ActivityId, Payload, invocation.athleteId)
    [] invocation.name = "deleteActivity" -> ActivityService_deleteActivity(ActivityId, invocation.athleteId)

-----------------------------------------------------------------------------
(* Observations on the most recently settled request *)

\* it was settled by a response: a success, or a failure that carries one
CarriedResponse ==
  \/ last.kind = "response"
  \/ (last.kind = "error" /\ Truthy(last.exchange.response))
LastResponse == IF last.kind = "response" THEN last.exchange ELSE last.exchange.response
FailedWithResponse == last.kind = "error" /\ Truthy(last.exchange.response)
FailedWithoutResponse == last.kind = "error" /\ ~Truthy(last.exchange.response)
\* the error the caller's promise was rejected with
LastError == last.settled.value
\* a header value the tracker is meant to ignore: absent, not a string, or a
\* string that does not parse as an integer
NonNumeric(value) == ~IsString(value) \/ ParseInt(value.s) = NaN

PhraseRateLimitExceeded == <<"R", "a", "t", "e", " ", "l", "i", "m", "i", "t", " ", "e", "x", "c", "e", "e", "d", "e", "d">>

-----------------------------------------------------------------------------
\* C1: every failure that carries a response with status 401, 404 or 429 is
\* rejected with an error whose code is AUTH_FAILED, NOT_FOUND or
\* RATE_LIMIT_EXCEEDED respectively and whose status is that HTTP status.
C1_StatusCodes ==
  FailedWithResponse =>
    LET status == LastResponse.status
    IN /\ status = 401 => (LastError.code = Str("AUTH_FAILED") /\ LastError.status = Num(401))
       /\ status = 404 => (LastError.code = Str("NOT_FOUND") /\ LastError.status = Num(404))
       /\ status = 429 =>
            (LastError.code = Str("RATE_LIMIT_EXCEEDED") /\ LastError.status = Num(429))

\* C2: every failed exchange, in every state of the tracker, rejects the call
\* with an IntervalsAPIError and with nothing else.
C2_OnlyIntervalsAPIError ==
  last.kind = "error" =>
    (last.settled.type = "rejected" /\ LastError.name = "IntervalsAPIError")

\* C3: once a response whose remaining header is the decimal string of n and
\* whose reset header is the decimal string of s has been processed, and until
\* the next exchange settles, getRateLimitRemaining() is n and
\* getRateLimitReset() is the instant s * 1000 ms after the epoch.
C3_GettersReflectHeaders ==
  CarriedResponse =>
    /\ \A n \in RemainingCounts :
         LastResponse.headers.remaining = Str(NumberToString(n))
           => getRateLimitRemaining = Num(n)
    /\ \A sec \in ResetSeconds :
         LastResponse.headers.reset = Str(NumberToString(sec))
           => getRateLimitReset = Date(Num(sec * 1000))

C3_Witness ==
  /\ CarriedResponse
  /\ LastResponse.headers.remaining = Str(<<"9", "8">>)
  /\ LastResponse.headers.reset = Str(<<"1", "6", "4", "0", "0", "0", "0">>)
  /\ getRateLimitRemaining = Num(98)
  /\ getRateLimitReset = Date(Num(1640000000))

\* C4: while no response has been processed, whatever requests have been
\* issued and whichever have failed without a response, both getters return
\* undefined.
C4_UnknownBeforeFirstResponse ==
  processed = 0 =>
    (getRateLimitRemaining = Undefined /\ getRateLimitReset = Undefined)

C4_Witness ==
  /\ processed = 0
  /\ inflight # {}
  /\ getRateLimitRemaining = Undefined
  /\ getRateLimitReset = Undefined

\* C5: processing a response leaves the stored remaining value as it was when
\* the remaining header is missing or non-numeric, and likewise the stored
\* reset value when the reset header is missing or non-numeric.
C5_TolerantParsing ==
  CarriedResponse =>
    /\ NonNumeric(LastResponse.headers.remaining)
         => getRateLimitRemaining = getRemaining(last.before)
    /\ NonNumeric(LastResponse.headers.reset)
         => getRateLimitReset = getReset(last.before)

\* C6: after any sequence of responses, in whatever order they answer the
\* requests, getRateLimitRemaining() is the remaining value of the most
\* recently processed response that carried a valid remaining header.
C6_LastWriteWins ==
  lastValidRemaining # Undefined => getRateLimitRemaining = lastValidRemaining

\* C7: the error of a 429 always says "Rate limit exceeded"; it contains the
\* ISO-8601 form of the reset time the tracker holds when the error is built,
\* and no reset clause when the tracker holds none.
C7_RateLimitMessage ==
  (FailedWithResponse /\ LastResponse.status = 429) =>
    LET message == LastError.message.s
        reset == getRateLimitReset
    IN /\ Contains(message, PhraseRateLimitExceeded)
       /\ (reset = Undefined) => ~Contains(message, MsgResetsAt)
       /\ (reset # Undefined /\ reset.time # NaN)
            => Contains(message, ISOString(reset.time.v))

\* C8: a failure without a response whose transport code is ECONNABORTED is
\* rejected with code TIMEOUT, no status and the message "Request timeout".
C8_Timeout ==
  (FailedWithoutResponse /\ last.exchange.code = Str("ECONNABORTED")) =>
    /\ LastError.name = "IntervalsAPIError"
    /\ LastError.code = Str("TIMEOUT")
    /\ LastError.status = Undefined
    /\ LastError.message = Str(MsgTimeout)

C8_Witness ==
  /\ FailedWithoutResponse
  /\ last.exchange.code = Str("ECONNABORTED")
  /\ LastError.code = Str("TIMEOUT")

\* the body of the failed response has a message field
BodyHasMessage == LastResponse.data # Undefined /\ LastResponse.data.message # Undefined
OtherStatus == FailedWithResponse /\ LastResponse.status \notin {401, 404, 429}

\* C9, as claimed: for a status other than 401, 404 and 429 the error has no
\* code, that status, and the body's message field whenever the body has one,
\* the transport failure's message otherwise.
C9_BodyMessageWhenPresent ==
  OtherStatus =>
    /\ LastError.code = Undefined
    /\ LastError.status = Num(LastResponse.status)
    /\ LastError.message =
         (IF BodyHasMessage THEN LastResponse.data.message ELSE last.exchange.message)

\* C9, amended: for a status other than 401, 404 and 429 the error has no
\* code, that status, and the body's message field when the body has a
\* non-empty one, the transport failure's message otherwise.
C9_BodyMessageWhenNonEmpty ==
  OtherStatus =>
    /\ LastError.name = "IntervalsAPIError"
    /\ LastError.code = Undefined
    /\ LastError.status = Num(LastResponse.status)
    /\ LastError.message =
         (IF BodyHasMessage /\ LastResponse.data.message.s # <<>>
          THEN LastResponse.data.message
          ELSE last.exchange.message)

C9_Witness ==
  /\ OtherStatus
  /\ BodyHasMessage
  /\ LastResponse.data.message.s # <<>>
  /\ last.exchange.message.s # <<>>
  /\ LastError.message = LastResponse.data.message
  /\ LastError.message # last.exchange.message

\* C10: a failure without a response that is not a timeout is rejected with
\* no code, no status and the failure's own message, or "Unknown error
\* occurred" when the failure has no message.
C10_NetworkFailure ==
  (FailedWithoutResponse /\ last.exchange.code # Str("ECONNABORTED")) =>
    /\ LastError.name = "IntervalsAPIError"
    /\ LastError.code = Undefined
    /\ LastError.status = Undefined
    /\ LastError.message =
         (IF last.exchange.message.s = <<>> THEN Str(MsgUnknown) ELSE last.exchange.message)

C10_Witness ==
  /\ FailedWithoutResponse
  /\ last.exchange.code = Str("ERR_NETWORK")
  /\ last.exchange.message.s = <<>>
  /\ LastError.message = Str(MsgUnknown)

-----------------------------------------------------------------------------
\* the error carries exactly the message, status and code given
IsAPIError(error, message, status, code) ==
  /\ error.name = "IntervalsAPIError"
  /\ error.message = Str(message)
  /\ error.status = status
  /\ error.code = code

\* C11: the rules are tried in the order 429, 401, 404, other status,
\* timeout, generic, and the first that matches decides: a failure with a
\* response is never TIMEOUT, whatever its transport code, and a 401, 404 or
\* 429 gets the fixed message of its rule, whatever message its body has.
C11_FirstMatchOrder ==
  last.kind = "error" =>
    IF FailedWithResponse
    THEN LET status == LastResponse.status
         IN /\ LastError.code # Str("TIMEOUT")
            /\ status = 429 =>
                 /\ LastError.code = Str("RATE_LIMIT_EXCEEDED")
                 /\ SubSeq(LastError.message.s, 1, Len(MsgRateLimit)) = MsgRateLimit
            /\ status = 401 =>
                 IsAPIError(LastError, MsgAuthFailed, Num(401), Str("AUTH_FAILED"))
            /\ status = 404 =>
                 IsAPIError(LastError, MsgNotFound, Num(404), Str("NOT_FOUND"))
            /\ status \notin {429, 401, 404} => LastError.code = Undefined
    ELSE IF last.exchange.code = Str("ECONNABORTED")
         THEN LastError.code = Str("TIMEOUT")
         ELSE LastError.code = Undefined

\* a 429 whose body has a message and whose transport code is ECONNABORTED,
\* settled while the tracker holds no reset time
C11_Precedence ==
  (/\ FailedWithResponse
   /\ BodyHasMessage
   /\ LastResponse.data.message.s # <<>>
   /\ last.exchange.code = Str("ECONNABORTED"))
    => /\ LastError.code # Str("TIMEOUT")
       /\ LastError.message # LastResponse.data.message
            \/ LastResponse.status \notin {429, 401, 404}

\* whenever an IntervalsAPIError is produced, the order of C11 is respected
FirstMatchWhenNormalized ==
  (last.kind = "error" /\ LastError.name = "IntervalsAPIError") => C11_FirstMatchOrder

-----------------------------------------------------------------------------
\* the instants of ResetSeconds as toISOString prints them
Epoch0ISO == <<"1", "9", "7", "0", "-", "0", "1", "-", "0", "1", "T", "0", "0", ":", "0", "0", ":", "0", "0", ".", "0", "0", "0", "Z">>
Epoch1640000ISO == <<"1", "9", "7", "0", "-", "0", "1", "-", "1", "9", "T", "2", "3", ":", "3", "3", ":", "2", "0", ".", "0", "0", "0", "Z">>
ExpectedISO(sec) == IF sec = 0 THEN Epoch0ISO ELSE Epoch1640000ISO

\* C12: the tracker is updated from a response's headers before the failure
\* is normalized: a 429 that carries the decimal string of s as its reset
\* header is rejected with a message containing the ISO-8601 form of s and of
\* no other reset time, and from then on the getters give the values of the
\* failure's own headers.
C12_UpdateBeforeNormalize ==
  (FailedWithResponse /\ LastResponse.status = 429) =>
    /\ \A sec \in ResetSeconds :
         LastResponse.headers.reset = Str(NumberToString(sec)) =>
           /\ LastError.name = "IntervalsAPIError"
           /\ Contains(LastError.message.s, MsgResetsAt \o ExpectedISO(sec))
           /\ \A other \in ResetSeconds \ {sec} :
                ~Contains(LastError.message.s, ExpectedISO(other))
           /\ getRateLimitReset = Date(Num(sec * 1000))
    /\ \A n \in RemainingCounts :
         LastResponse.headers.remaining = Str(NumberToString(n))
           => getRateLimitRemaining = Num(n)

C12_Witness ==
  /\ FailedWithResponse
  /\ LastResponse.status = 429
  /\ getReset(last.before) = Date(Num(0))
  /\ LastResponse.headers.reset = Str(<<"1", "6", "4", "0", "0", "0", "0">>)
  /\ LastResponse.headers.remaining = Str(<<"5", "0">>)
  /\ Contains(LastError.message.s, Epoch1640000ISO)
  /\ getRateLimitReset = Date(Num(1640000000))
  /\ getRateLimitRemaining = Num(50)

-----------------------------------------------------------------------------
\* this step settles a request with a response, successful or not
ResponseProcessed ==
  /\ inflight' = inflight \ {last'.id}
  /\ last'.id \in inflight
  /\ \/ last'.kind = "response"
     \/ (last'.kind = "error" /\ Truthy(last'.exchange.response))

\* this step settles a request with a failure that carries no response
FailureWithoutResponse ==
  /\ inflight' = inflight \ {last'.id}
  /\ last'.id \in inflight
  /\ last'.kind = "error"
  /\ ~Truthy(last'.exchange.response)

\* C13: the tracker's fields change only in a step that processes a
\* response: a step that issues a request and a step that settles a failure
\* without a response leave both fields, and so both getters, as they were.
C13_TrackerFrame ==
  [][/\ rateLimitTracker' # rateLimitTracker => ResponseProcessed
     /\ issued' # issued =>
          (getRateLimitRemaining' = getRateLimitRemaining
             /\ getRateLimitReset' = getRateLimitReset)
     /\ FailureWithoutResponse =>
          (getRateLimitRemaining' = getRateLimitRemaining
             /\ getRateLimitReset' = getRateLimitReset)]_vars

\* a failure without a response was settled after a response was processed,
\* and the tracker still holds what that response gave it
C13_Witness ==
  /\ FailedWithoutResponse
  /\ issued > 1
  /\ processed > 0
  /\ rateLimitTracker = last.before
  /\ getRateLimitRemaining = Num(98)
  /\ getRateLimitReset = Date(Num(1640000000))

-----------------------------------------------------------------------------
\* C14: each field of the tracker only moves from unknown to known: no step
\* takes a getter that returns something other than undefined to a state
\* where it returns undefined.
C14_NeverBackToUnknown ==
  [][/\ getRateLimitRemaining # Undefined => getRateLimitRemaining' # Undefined
     /\ getRateLimitReset # Undefined => getRateLimitReset' # Undefined]_vars

\* a response without the two headers was processed after both fields were
\* known, and both getters still return the earlier values
C14_Witness ==
  /\ CarriedResponse
  /\ LastResponse.headers = NoHeaders
  /\ getRemaining(last.before) = Num(98)
  /\ getReset(last.before) = Date(Num(0))
  /\ getRateLimitRemaining = Num(98)
  /\ getRateLimitReset = Date(Num(0))

-----------------------------------------------------------------------------
\* the tracker of a client whose first exchange is this response
FreshClientAfter(response) == updateFromHeaders(NewRateLimitTracker, response.headers)

\* C15: the client cannot get stuck: however many requests have failed, a
\* response that arrives afterwards resolves its call with the response body,
\* and each field of the tracker for which the response carries a header
\* becomes what it becomes on a client that has seen no failure, the other
\* field staying as it was.
C15_UsableAfterFailures ==
  last.kind = "response" =>
    /\ last.settled = [type |-> "resolved", value |-> last.exchange.data]
    /\ getRateLimitRemaining =
         (IF IsString(last.exchange.headers.remaining)
          THEN getRemaining(FreshClientAfter(last.exchange))
          ELSE getRemaining(last.before))
    /\ getRateLimitReset =
         (IF IsString(last.exchange.headers.reset)
          THEN getReset(FreshClientAfter(last.exchange))
          ELSE getReset(last.before))

\* a request failed with a response, and a later one was answered with a
\* body and both headers
C15_Witness ==
  /\ last.kind = "response"
  /\ failures > 0
  /\ processed > 1
  /\ last.exchange.status = 200
  /\ last.settled.value = SomeBody
  /\ last.exchange.headers.remaining = Str(<<"9", "8">>)
  /\ last.exchange.headers.reset = Str(<<"0">>)
  /\ getRateLimitRemaining = Num(98)
  /\ getRateLimitReset = Date(Num(0))
  /\ last.before # NewRateLimitTracker

-----------------------------------------------------------------------------
\* C16: normalization is deterministic: when the failure settled in a step
\* is the failure settled just before it (same response or none, same
\* transport message and code) and the tracker was not touched in between,
\* the second call is rejected with the same message, status and code as the
\* first.
C16_Deterministic ==
  [][(/\ last.kind = "error"
      /\ last'.kind = "error"
      /\ last'.id # last.id
      /\ last'.exchange = last.exchange)
       => /\ last'.settled.type = last.settled.type
          /\ last'.settled.value.message = last.settled.value.message
          /\ last'.settled.value.status = last.settled.value.status
          /\ last'.settled.value.code = last.settled.value.code]_vars

\* two 404s in a row, both rejected with NOT_FOUND
C16_Witness ==
  /\ FailedWithResponse
  /\ last.repeat
  /\ failures = 2
  /\ LastResponse.status = 404
  /\ BodyHasMessage
  /\ IsAPIError(LastError, MsgNotFound, Num(404), Str("NOT_FOUND"))

-----------------------------------------------------------------------------
(* Observations on the latest call of a resource method *)

\* the HTTP requests issued so far for call number n
OwnedBy(n) == {id \in DOMAIN owner : owner[id].call = n}
\* the call was rejected with an error of this code
RejectedWith(code) == call.state = "rejected" /\ call.value.code = code
\* the last settlement answered a request of the latest call successfully
AnsweredCall == call.n > 0 /\ last.kind = "response" /\ last.id \in RequestIds(call)

\* C17: no failure is retried: every HTTP request is issued by a call of a
\* method, one per request<T> invocation, before any answer to that call; a
\* step that handles a failure or a response issues nothing.  A rejected call
\* of a method that makes one request<T> invocation has issued exactly one
\* HTTP request, and issues none afterwards.
C17_NoRetry ==
  /\ [](/\ Len(owner) = issued
        /\ \A i, j \in DOMAIN owner : owner[i] = owner[j] => i = j
        /\ (call.state = "rejected" /\ Len(call.requests) = 1)
             => Cardinality(OwnedBy(call.n)) = 1)
  /\ [][/\ call'.n = call.n => (issued' = issued /\ owner' = owner)
        /\ failures' # failures => (issued' = issued /\ inflight' \subseteq inflight)]_vars

\* a call rejected with the error of a 429 after a call rejected by a
\* timeout: two requests were issued in all, and none is in flight
C17_Witness ==
  /\ RejectedWith(Str("RATE_LIMIT_EXCEEDED"))
  /\ failures = 2
  /\ call.n = 2
  /\ issued = 2
  /\ inflight = {}
  /\ Cardinality(OwnedBy(2)) = 1

Given(value) == IsString(value) /\ value.s # <<>>
ExpectedAthleteId ==
  IF Given(call.invocation.athleteId) THEN call.invocation.athleteId.s
  ELSE IF Given(config.athleteId) THEN config.athleteId.s
  ELSE <<"m", "e">>

\* C19: every request of an athlete-scoped method has the path /athlete/{id}
\* followed by nothing or by /{resource}[/{id}], where {id} is the athlete id
\* passed to the call, else the configured one, else 'me'; whatever ids
\* earlier calls were given, the default stays the configured one.
C19_AthletePath ==
  /\ athleteId.s = (IF Given(config.athleteId) THEN config.athleteId.s ELSE <<"m", "e">>)
  /\ (call.n > 0 /\ call.invocation.name \in AthleteScoped \cup ListTaking) =>
       \A k \in 1..Len(call.requests) :
         LET url == call.requests[k].url
             prefix == <<"/", "a", "t", "h", "l", "e", "t", "e", "/">> \o ExpectedAthleteId
         IN /\ Len(url) >= Len(prefix)
            /\ SubSeq(url, 1, Len(prefix)) = prefix
            /\ Len(url) > Len(prefix) => url[Len(prefix) + 1] = "/"

\* after a call that was given an athlete id, getEvent without one goes to
\* the configured athlete
C19_Witness ==
  /\ overridden
  /\ call.n > 1
  /\ call.invocation.name = "getEvent"
  /\ call.invocation.athleteId = Undefined
  /\ config.athleteId = Str(<<"i", "7">>)
  /\ call.requests[1].url = <<"/", "a", "t", "h", "l", "e", "t", "e", "/", "i", "7", "/", "e", "v", "e", "n", "t", "s", "/", "9", "9", "9", "9", "9">>

\* the operations named get..., create... and update...
GetCreateUpdate ==
  {name \in AthleteScoped \cup ListTaking \cup ActivityScoped \cup {"getActivityStreams"} :
     name \notin {"deleteEvent", "deleteWellness", "deleteWorkout", "deleteActivity",
                  "deleteActivityIntervals", "splitInterval", "deleteEventsBulk",
                  "deleteEventsRange"}}

\* the value the latest call resolved with is the body of the response just
\* processed; for createEventsBulk, whose result lists the bodies of its
\* responses, the body stands at the place of its event
ResolvedWithBody ==
  IF call.returns = AllData
  THEN /\ Len(call.value.items) = Len(call.invocation.list)
       /\ call.value.items[last.id - call.first + 1] = last.exchange.data
  ELSE call.value = last.exchange.data

-----------------------------------------------------------------------------
DeleteOperations == {"deleteEvent", "deleteWellness", "deleteWorkout", "deleteActivity"}

\* C21: once the request of deleteEvent, deleteWellness, deleteWorkout or
\* deleteActivity is answered with a 2xx response, the call is resolved, not
\* rejected, and with no value, whether the response has a body or, as a 204
\* has, none.
C21_DeleteResolvesVoid ==
  (AnsweredCall /\ call.invocation.name \in DeleteOperations) =>
    /\ call.state = "resolved"
    /\ call.value = Undefined

\* deleteEvent answered with a body resolves with no value
C21_Witness ==
  /\ AnsweredCall
  /\ call.invocation.name = "deleteEvent"
  /\ last.exchange.status = 200
  /\ last.exchange.data # Undefined
  /\ call.state = "resolved"
  /\ call.value = Undefined

-----------------------------------------------------------------------------
(* Construction and instances *)

\* the configuration has a value for the setting
Supplied(value) == value # Undefined

\* C22: the axios instance has base URL 'https://intervals.icu/api/v1' and
\* timeout 10000 when the configuration omits them and the configuration's
\* base URL and timeout whenever it supplies them, whatever the supplied
\* value; every request is sent with these settings.
C22_SettingsFromConfig ==
  /\ client.baseURL = (IF Supplied(config.baseURL) THEN config.baseURL ELSE Str(DefaultBaseURL))
  /\ client.timeout = (IF Supplied(config.timeout) THEN config.timeout ELSE Num(DefaultTimeout))
  /\ \A k \in 1..Len(sent) :
       sent[k].baseURL = client.baseURL /\ sent[k].timeout = client.timeout

\* the Authorization header of each API key, encoded by hand
AuthorizationK == <<"B", "a", "s", "i", "c", " ", "Q", "V", "B", "J", "X", "0", "t", "F", "W", "T", "p", "r">>
AuthorizationK2 == <<"B", "a", "s", "i", "c", " ", "Q", "V", "B", "J", "X", "0", "t", "F", "W", "T", "p", "r", "M", "g", "=", "=">>
AuthorizationAbc == <<"B", "a", "s", "i", "c", " ", "Q", "V", "B", "J", "X", "0", "t", "F", "W", "T", "p", "h", "Y", "m", "M", "=">>
ExpectedAuthorization(apiKey) ==
  CASE apiKey = Str(<<"k">>) -> AuthorizationK
    [] apiKey = Str(<<"k", "2">>) -> AuthorizationK2
    [] apiKey = Str(<<"a", "b", "c">>) -> AuthorizationAbc

\* C23: every request of a client carries the Authorization header computed
\* at construction, 'Basic ' followed by base64('API_KEY:' + apiKey): it is a
\* function of the configured API key alone and no request, response or
\* failure changes it.
C23_SameAuthorization ==
  /\ client.headers.Authorization = Str(ExpectedAuthorization(config.apiKey))
  /\ \A k \in 1..Len(sent) : sent[k].headers.Authorization = client.headers.Authorization

\* a client with key 'k2' and its own base URL has sent two requests, one has
\* failed and the other has been answered
C23_Witness ==
  /\ config.apiKey = Str(<<"k", "2">>)
  /\ config.baseURL = CustomBaseURL
  /\ Len(sent) = 2
  /\ failures > 0
  /\ last.kind = "response"
  /\ sent[2].headers.Authorization = Str(AuthorizationK2)

\* C24: the message of a 429 error is built from what the tracker holds when
\* the error is constructed: it names the reset time stored by the latest
\* response that carried one, whichever request that response answered, and
\* no reset time when none was stored.  With requests in flight together, the
\* reset time in one call's error is then the one another call's response
\* delivered.
C24_ResetOfLatestResponse ==
  (FailedWithResponse /\ LastResponse.status = 429) =>
    /\ LastError.name = "IntervalsAPIError"
    /\ IF resetFrom.id = 0
       THEN LastError.message = Str(MsgRateLimit)
       ELSE LastError.message = Str(MsgRateLimit \o MsgResetsAt \o Epoch1640000ISO)

\* call A's 429 has no reset header; its error names the reset time that
\* call B's response stored while A was in flight
C24_Witness ==
  /\ FailedWithResponse
  /\ LastResponse.status = 429
  /\ LastResponse.headers.reset = Undefined
  /\ resetFrom.id # 0
  /\ resetFrom.id # last.id
  /\ last.id \in resetFrom.inflight
  /\ LastError.code = Str("RATE_LIMIT_EXCEEDED")
  /\ Contains(LastError.message.s, MsgResetsAt \o Epoch1640000ISO)

\* the second instance's latest request was rejected with a 429 error
SecondRateLimited ==
  /\ second.settled # Undefined
  /\ second.settled.type = "rejected"
  /\ second.settled.value.code = Str("RATE_LIMIT_EXCEEDED")

\* C26: rate-limit state is per client instance.  With two instances, a
\* response or failure processed on one leaves the values the other's
\* getRateLimitRemaining() and getRateLimitReset() return as they were, and a
\* 429 error built by one never names a reset time stored by the other (the
\* first instance's server announces the instant 1640000, the second's the
\* instant 0).
C26_PerInstanceTracker ==
  /\ [](/\ (FailedWithResponse /\ LastResponse.status = 429)
             => ~Contains(LastError.message.s, Epoch0ISO)
        /\ SecondRateLimited
             => ~Contains(second.settled.value.message.s, Epoch1640000ISO))
  /\ [][/\ (processed' # processed \/ failures' # failures)
             => /\ getRemaining(second.rateLimitTracker') = getRemaining(second.rateLimitTracker)
                /\ getReset(second.rateLimitTracker') = getReset(second.rateLimitTracker)
        /\ second' # second
             => /\ getRateLimitRemaining' = getRateLimitRemaining
                /\ getRateLimitReset' = getRateLimitReset]_vars

\* both instances hold the reset time of their own server and each has built
\* a 429 error naming its own
C26_Witness ==
  /\ FailedWithResponse
  /\ LastResponse.status = 429
  /\ Contains(LastError.message.s, MsgResetsAt \o Epoch1640000ISO)
  /\ SecondRateLimited
  /\ Contains(second.settled.value.message.s, MsgResetsAt \o Epoch0ISO)
  /\ getRateLimitRemaining = Num(98)
  /\ getRemaining(second.rateLimitTracker) = Num(50)

-----------------------------------------------------------------------------
(* The shape of normalized errors *)

\* the caller's promise was rejected with an error the normalizer returned
Normalized == last.kind = "error" /\ LastError.name = "IntervalsAPIError"
\* the rule that decided the error gives it a code
CodedFailure ==
  \/ FailedWithResponse /\ LastResponse.status \in {401, 404, 429}
  \/ FailedWithoutResponse /\ last.exchange.code = Str("ECONNABORTED")

\* C25: every normalized error has a non-empty message, whichever rule
\* produced it (a status rule, the timeout rule, the rule for other network
\* failures); its status is absent exactly when the failure carried no
\* response and its code exactly when the rule that produced it has none.
C25_MessageNeverEmpty ==
  Normalized =>
    /\ LastError.message.s # <<>>
    /\ (LastError.status = Undefined) <=> FailedWithoutResponse
    /\ (LastError.code = Undefined) <=> ~CodedFailure

ErrorCodes == {Str("AUTH_FAILED"), Str("NOT_FOUND"), Str("RATE_LIMIT_EXCEEDED"), Str("TIMEOUT")}

\* C27: every error the normalizer returns has a code among AUTH_FAILED,
\* NOT_FOUND, RATE_LIMIT_EXCEEDED, TIMEOUT or none; has no status if and only
\* if the failure carried no response; has no status when its code is
\* TIMEOUT; and has code AUTH_FAILED, NOT_FOUND, RATE_LIMIT_EXCEEDED if and
\* only if its status is 401, 404, 429 respectively.
C27_ErrorInvariant ==
  Normalized =>
    /\ LastError.code \in ErrorCodes \cup {Undefined}
    /\ (LastError.status = Undefined) <=> ~Truthy(last.exchange.response)
    /\ LastError.code = Str("TIMEOUT") => LastError.status = Undefined
    /\ (LastError.code = Str("AUTH_FAILED")) <=> (LastError.status = Num(401))
    /\ (LastError.code = Str("NOT_FOUND")) <=> (LastError.status = Num(404))
    /\ (LastError.code = Str("RATE_LIMIT_EXCEEDED")) <=> (LastError.status = Num(429))

\* a failure with a response and the transport code ECONNABORTED was
\* normalized after a timeout had been: it has its status and no TIMEOUT code
C27_Witness ==
  /\ Normalized
  /\ failures = 2
  /\ FailedWithResponse
  /\ last.exchange.code = Str("ECONNABORTED")
  /\ LastResponse.status = 500
  /\ LastError.status = Num(500)
  /\ LastError.code = Undefined

-----------------------------------------------------------------------------
(* createEventsBulk *)

BulkCreate == call.n > 0 /\ call.invocation.name = "createEventsBulk"
\* the HTTP request sent for the k-th event of the list
RequestOf(k) == call.first + k - 1

\* C28: createEventsBulk with a list of n events issues n requests
\* POST /athlete/{id}/events, the k-th with the k-th event as its body, all in
\* flight together; when all are answered it resolves with the n response
\* bodies in the order of the list, whatever order they arrived in; with an
\* empty list it issues no request and resolves with an empty list.
C28_BulkCreateInOrder ==
  BulkCreate =>
    LET events == call.invocation.list
        n == Len(events)
    IN /\ Len(call.requests) = n
       /\ OwnedBy(call.n) = {RequestOf(k) : k \in 1..n}
       /\ \A k \in 1..n :
            /\ call.requests[k].method = "POST"
            /\ call.requests[k].url = PathAthlete \o ExpectedAthleteId \o SegEvents
            /\ call.requests[k].data = events[k]
            /\ call.results[k] = Pending => RequestOf(k) \in inflight
       /\ n = 0 => (call.state = "resolved" /\ call.value = ArrayOf(<<>>))
       /\ (\A k \in 1..n : call.results[k].type = "resolved") =>
            /\ call.state = "resolved"
            /\ call.value.t = "array"
            /\ Len(call.value.items) = n
            /\ \A k \in 1..n : call.value.items[k] = call.results[k].value
       /\ (call.state = "resolved" /\ n > 0 /\ last.id \in RequestIds(call)) =>
            call.value.items[last.id - call.first + 1] = last.exchange.data

\* two events: the answer to the second POST arrived first, the answer to the
\* first POST last, with different bodies, and the result lists the first
\* POST's body first
C28_Witness ==
  /\ BulkCreate
  /\ Len(call.invocation.list) = 2
  /\ call.state = "resolved"
  /\ last.kind = "response"
  /\ last.id = RequestOf(1)
  /\ call.value.items[1] = AthleteBody
  /\ call.value.items[2] = EventBody

\* a step in which a request of the latest call fails
CallFailure == failures' # failures /\ last'.id \in RequestIds(call)

\* C29: createEventsBulk rejects with the error of the first of its POSTs to
\* fail and keeps that error; the rejection takes no other POST out of
\* flight, and a response to another POST that arrives after the rejection
\* still updates the rate-limit tracker.
C29_FirstFailureRejects ==
  [][(BulkCreate /\ call'.n = call.n) =>
       /\ (call.state = "pending" /\ CallFailure) =>
            /\ call'.state = "rejected"
            /\ call'.value = last'.settled.value
            /\ \A k \in 1..Len(call.results) : call.results[k].type # "rejected"
            /\ inflight' = inflight \ {last'.id}
       /\ call.state = "rejected" =>
            /\ call'.state = "rejected"
            /\ call'.value = call.value
            /\ (processed' # processed /\ last'.kind = "response"
                  /\ last'.exchange.headers.remaining = Str(<<"9", "8">>))
                 => getRateLimitRemaining' = Num(98)]_vars

\* the first POST was rejected by a 429 that left 50 remaining; the call was
\* rejected with RATE_LIMIT_EXCEEDED; then the second POST was answered 201
\* and the tracker holds its 98
C29_Witness ==
  /\ BulkCreate
  /\ Len(call.invocation.list) = 2
  /\ RejectedWith(Str("RATE_LIMIT_EXCEEDED"))
  /\ call.results[1].type = "rejected"
  /\ call.results[2].type = "resolved"
  /\ last.kind = "response"
  /\ last.id = RequestOf(2)
  /\ last.exchange.status = 201
  /\ getRemaining(last.before) = Num(50)
  /\ getRateLimitRemaining = Num(98)

-----------------------------------------------------------------------------
(* The two clients side by side *)

-----------------------------------------------------------------------------
(* Supporting lemmas: where the statements above fail, they fail only on a  *)
(* rate-limit header that is a string parseInt cannot read.                 *)

\* whenever an IntervalsAPIError is produced, its code, status and 429
\* message are as C1 and C7 state
NormalizedErrorShape ==
  (FailedWithResponse /\ LastError.name = "IntervalsAPIError")
    => (C1_StatusCodes /\ C7_RateLimitMessage)

\* a header that is absent or not a string leaves its field untouched
FrameWhenNotString ==
  CarriedResponse =>
    /\ ~IsString(LastResponse.headers.remaining)
         => getRateLimitRemaining = getRemaining(last.before)
    /\ ~IsString(LastResponse.headers.reset)
         => getRateLimitReset = getReset(last.before)

\* the only error other than IntervalsAPIError is the RangeError of a 429
\* built while the tracker holds an invalid Date
RangeErrorOnlyOnInvalidReset ==
  (last.kind = "error" /\ LastError.name # "IntervalsAPIError")
    => /\ FailedWithResponse
       /\ LastResponse.status = 429
       /\ getRateLimitReset = Date(NaN)

\* C22 holds for every base URL other than the empty string and every
\* timeout other than 0, and the instance never changes
TruthySettingsUsed ==
  /\ Truthy(config.baseURL) => client.baseURL = config.baseURL
  /\ Truthy(config.timeout) => client.timeout = config.timeout
  /\ ~Supplied(config.baseURL) => client.baseURL = Str(DefaultBaseURL)
  /\ ~Supplied(config.timeout) => client.timeout = Num(DefaultTimeout)
  /\ \A k \in 1..Len(sent) :
       sent[k].baseURL = client.baseURL /\ sent[k].timeout = client.timeout
SettingsNeverChange == [][client' = client]_vars

\* C25 apart from the message: status and code are absent exactly when they
\* do not apply, and the message is empty only for a status without a rule of
\* its own whose body has no message and whose transport message is empty
FieldsAbsentWhenNotApplicable ==
  Normalized =>
    /\ (LastError.status = Undefined) <=> FailedWithoutResponse
    /\ (LastError.code = Undefined) <=> ~CodedFailure
    /\ LastError.message.s = <<>> =>
         /\ FailedWithResponse
         /\ LastResponse.status \notin {401, 404, 429}
         /\ ~Truthy(DataMessage(LastResponse.data))
         /\ last.exchange.message = Str(<<>>)

\* the transports of the two clients agree on every response and failure of
\* the model, the non-numeric headers included
TransportsAgree ==
  /\ monolith.fields.rateLimitRemaining = getRateLimitRemaining
  /\ monolith.fields.rateLimitReset = getRateLimitReset
  /\ monolith.settled = last.settled

====
